---- MODULE Spec2Model ----
(***************************************************************************)
(* PriceWatcher: the monitoring and alerting pipeline.                     *)
(*                                                                         *)
(* Tables (database/models.py): products, price_points, price_alerts.      *)
(* Tasks: update_product_price, check_product_alerts, check_price_alerts   *)
(* (tasks/price_tasks.py), TaskScheduler.check_price_alerts                *)
(* (tasks/scheduler.py), send_price_alert_notifications                    *)
(* (tasks/notification_tasks.py), NotificationManager.send_price_alert     *)
(* (notifications/manager.py).  Sweeps: TaskScheduler.update_all_prices    *)
(* (tasks/scheduler.py), ScraperManager.update_all_products                *)
(* (scrapers/manager.py).                                                  *)
(*                                                                         *)
(* Time is datetime.utcnow() in seconds.  A worker is one thread of        *)
(* control (a Celery worker process or the scheduler thread) with its own  *)
(* SQLAlchemy session: what a query loaded stays in the session until the  *)
(* session commits (expire_on_commit) or closes.                           *)
(***************************************************************************)
EXTENDS Integers, Sequences, FiniteSets, TLC

VARIABLES
    now,           \* datetime.utcnow(), seconds
    products,      \* products table: id -> [active]
    price_points,  \* price_points table, rows in insertion order
    alerts,        \* price_alerts table: id -> row
    procs,         \* worker -> its position and its session's locals
    queue,         \* broker: send_price_alert_notifications messages in flight
    trig,          \* per alert, its two latest notification triggers
    notifiers,     \* NotificationManager.notifiers: channel -> notifier state
    scrapers,      \* ScraperManager.scrapers: store names in insertion order
    refresh,       \* broker: update_product_price chains in flight
    sched,         \* the TaskScheduler object and its thread
    stores         \* stores table: the names of its rows

vars == <<now, products, price_points, alerts, procs, queue, trig, notifiers,
          scrapers, refresh, sched, stores>>

\* what the tasks themselves never write
setup == <<notifiers, scrapers, refresh, sched, stores>>

----------------------------------------------------------------------------
(* Bounds of the model *)

\* utcnow() advances in steps of half a cooldown: 12 h
TickSeconds == 43200
\* the clock stops advancing here (24 h)
MaxNow == 86400
\* no refresh and no sweep starts once the price_points table holds this
\* many rows
MaxPoints == 1
\* beat schedules no sweep once the broker holds this many refresh chains
MaxPending == 2
\* no product is added once the products table holds this many rows
MaxProducts == 4
\* no alert is created once the price_alerts table holds this many rows
MaxAlerts == 2
\* no observation is appended with its columns once the price_points table
\* holds this many rows
MaxRows == 2
\* start() creates no loop thread once this many have been created
MaxThreads == 2

----------------------------------------------------------------------------
(* Program constants and small input sets *)

\* last_notified_at is nullable; a missing value
NULL == -1

\* 24 * 60 * 60: the literal of both per-rule cooldown checks
DaySeconds == 24 * 60 * 60

ProductIds == {1, 2}
AlertIds == {1, 2}
Prices == {1, 2}
Workers == {"w1", "w2"}

\* the keys of the outcome map, in the order the dispatch goes through them
Channels == <<"email", "telegram", "sms">>

\* the notifier class behind each channel
NotifierOf(channel) ==
    CASE channel = "email" -> "Email"
      [] channel = "telegram" -> "Telegram"
      [] channel = "sms" -> "Twilio"

Notifiers == {"Email", "Telegram", "Twilio"}

\* a notifier is missing from NotificationManager.notifiers when its module
\* failed to load, and otherwise answers is_configured() from its credentials
NotifierStates == {"missing", "unconfigured", "configured"}

\* notification_email / notification_telegram / notification_phone: an
\* address, or empty
Endpoints == {"", "addr"}

\* what the transport does with one message: delivers it, or raises inside
\* the sender
Transports == {"delivered", "error"}

\* get_store_name() of AmazonScraper, EbayScraper, WalmartScraper, in the
\* order pkgutil.iter_modules lists their modules
StoreNames == <<"Amazon", "eBay", "Walmart">>

\* the jobs of _setup_schedule
Jobs == {"update_all_prices", "check_price_alerts"}

\* TaskScheduler.__init__: running = False, scheduler_thread = None; due
\* holds the jobs one schedule.run_pending() still has to run; failed is
\* history, the products the last finished sweep logged as failed
NewScheduler ==
    [running |-> FALSE, thread |-> "none", due |-> {}, failed |-> {}]

Min(S) == CHOOSE x \in S : \A y \in S : x <= y

----------------------------------------------------------------------------
(* Queries *)

\* PricePoint(product_id, price, currency, in_stock) as update_product_price
\* builds it; session.add and commit fill id (autoincrement) and timestamp
\* (default=datetime.utcnow, the clock reading of the insert).
NewPricePoint(product_id, price, currency, in_stock) ==
    [id |-> Len(price_points) + 1, product_id |-> product_id,
     price |-> price, currency |-> currency, in_stock |-> in_stock,
     timestamp |-> now]

\* query(PricePoint).filter(product_id == p)
\*      .order_by(PricePoint.timestamp.desc()).first()
\* The ORDER BY names the timestamp alone: among the rows of the product
\* that share the greatest timestamp the database returns any one.
LatestByTimestamp(p) ==
    LET rows == {i \in 1..Len(price_points) : price_points[i].product_id = p}
    IN  {price_points[i] : i \in {j \in rows : \A k \in rows :
             price_points[k].timestamp <= price_points[j].timestamp}}

\* mutant of LatestPrices: any stored observation of the product
AnyPrices(p) ==
    {price_points[i] : i \in {j \in 1..Len(price_points) :
                                 price_points[j].product_id = p}}

\* session.query(PricePoint).filter(product_id == p)
\*        .order_by(PricePoint.timestamp.desc()).first()
\* Where the rows are kept with their timestamp column this is the query by
\* timestamp.  Where they are kept without it, the rows of a product are in
\* timestamp order as inserted (timestamp defaults to utcnow() at insertion).
\* No row gives the empty set.
LatestPrices(p) ==
    LET rows == {i \in 1..Len(price_points) : price_points[i].product_id = p}
    IN  IF \E i \in rows : "timestamp" \in DOMAIN price_points[i]
        THEN LatestByTimestamp(p)
        ELSE {price_points[i] : i \in {j \in rows : \A k \in rows : k <= j}}

\* mutant of SelectedAlerts: strict comparison drops the equality case
SelectedAlertsStrict(product_id, price) ==
    {a \in AlertIds : /\ alerts[a].product_id = product_id
                      /\ alerts[a].is_active
                      /\ alerts[a].target_price > price}

\* PriceAlert.product_id == product_id, is_active == True,
\* target_price >= price_update_result['price']
SelectedAlerts(product_id, price) ==
    {a \in AlertIds : /\ alerts[a].product_id = product_id
                      /\ alerts[a].is_active
                      /\ alerts[a].target_price >= price}

\* mutant of ShouldNotify: the cooldown test is dropped
ShouldNotifyAlways(last_notified_at, utcnow) == TRUE

\* mutant of ShouldNotify: a rule that was notified once stays suppressed
ShouldNotifyOnce(last_notified_at, utcnow) ==
    last_notified_at = NULL

\* mutant of ShouldNotify: the boundary second is suppressed too
ShouldNotifyLe(last_notified_at, utcnow) ==
    ~(last_notified_at # NULL /\ (utcnow - last_notified_at) <= 24 * 60 * 60)

\* should_notify = True; if alert.last_notified_at and
\* time_since_last.total_seconds() < 24 * 60 * 60: should_notify = False
ShouldNotify(last_notified_at, utcnow) ==
    ~(last_notified_at # NULL /\ (utcnow - last_notified_at) < 24 * 60 * 60)

\* mutant of SkipRecent: the boundary second is skipped too
SkipRecentGe(last_notified_at, utcnow) ==
    last_notified_at # NULL /\ last_notified_at >= utcnow - DaySeconds

\* check_price_alerts: yesterday = now - timedelta(days=1);
\* skip when alert.last_notified_at and alert.last_notified_at > yesterday
SkipRecent(last_notified_at, utcnow) ==
    last_notified_at # NULL /\ last_notified_at > utcnow - DaySeconds

----------------------------------------------------------------------------
(* Workers *)

IdleProc ==
    [pc |-> "idle", product_id |-> 0, price |-> 0, tnow |-> 0,
     loaded |-> {}, todo |-> {}, triggered |-> {},
     rows |-> [a \in AlertIds |-> NULL], expired |-> FALSE,
     cur |-> 0, should_notify |-> FALSE, seen |-> NULL,
     chan |-> 0, results |-> {}, attempted |-> {}, aborted |-> FALSE,
     base |-> 0, pending |-> <<>>, tried |-> {}, broke |-> {},
     scraped |-> [p \in ProductIds |-> NULL], outage |-> FALSE,
     summary |-> [scheduled_products |-> 0, updated_count |-> 0,
                  error_count |-> 0],
     url |-> [host |-> "", path |-> ""],
     found |-> [raised |-> FALSE, value |-> ""],
     calls |-> <<>>,
     retried |-> {},
     path |-> "",
     status |-> "",
     info |-> [raised |-> FALSE, value |-> <<>>],
     result |-> <<>>,
     stale |-> FALSE]

\* trig[a]: the decision times of the two latest triggers of alert a, and
\* whether the dispatch of each was cut short by a crash
NoTrig == [prev |-> NULL, last |-> NULL, crashed |-> FALSE]

Push1(r, time) == [prev |-> r.last, last |-> time, crashed |-> FALSE]

Push(t, S, time) == [a \in AlertIds |-> IF a \in S THEN Push1(t[a], time) ELSE t[a]]

\* the arguments of send_price_alert_notifications
Message(alert_ids, product_id, price) ==
    [alert_ids |-> alert_ids, product_id |-> product_id, price |-> price]

Set(w, r) == [procs EXCEPT ![w] = r]

TypeOK ==
    /\ now \in Nat
    /\ DOMAIN products \subseteq Nat
    /\ \A p \in DOMAIN products : products[p] \in [active : BOOLEAN]
    /\ stores \subseteq {StoreNames[i] : i \in 1..Len(StoreNames)}
    /\ DOMAIN alerts \subseteq Nat
    /\ \A a \in DOMAIN alerts : alerts[a] \in
          [product_id : ProductIds, target_price : Prices,
           is_active : BOOLEAN,
           last_notified_at : Nat \cup {NULL},
           notification_email : Endpoints,
           notification_telegram : Endpoints,
           notification_phone : Endpoints]
    /\ notifiers \in [Notifiers -> NotifierStates]
    /\ \A w \in Workers : procs[w].pc \in
          {"idle", "upp_scrape", "upp_commit", "cpa_commit", "cpa_delay",
           "ck_loop", "sc_loop", "sc_decided", "sc_update",
           "sw_scrape", "sw_commit", "mg_scrape", "mg_done",
           "spa_send", "spn_alert", "spn_send", "cb_done", "gs_done", "sp_found",
           "sp_done", "ap_scraped", "ap_done", "ca_done", "pp_added", "pp_read",
           "sw_failed", "cb_failed", "upp_done", "per_product", "global",
           "cp_scrape", "cp_done"}

----------------------------------------------------------------------------
(* The clock and the user *)

Tick ==
    /\ now < MaxNow
    /\ now' = now + TickSeconds
    /\ UNCHANGED <<setup, products, price_points, alerts, procs, queue, trig>>

\* dashboard, Alert Management: selected_alert.is_active = new_status; commit
ToggleAlert(a) ==
    /\ a \in DOMAIN alerts
    /\ alerts' = [alerts EXCEPT ![a].is_active = ~alerts[a].is_active]
    /\ UNCHANGED <<setup, now, products, price_points, procs, queue, trig>>


\* a delete that removes the row, and with it, by the cascade of the
\* relationships, the price points and the alerts of the product
DeleteProductCascade(p) ==
    /\ products[p].active
    /\ products' = [q \in DOMAIN products \ {p} |-> products[q]]
    /\ price_points' = SelectSeq(price_points,
                                 LAMBDA row : row.product_id # p)
    /\ alerts' = [a \in {b \in DOMAIN alerts : alerts[b].product_id # p} |->
                     alerts[a]]
    /\ UNCHANGED <<setup, now, procs, queue, trig>>

\* api DELETE /products/{product_id}: product.active = False; commit
\* (a soft delete: the price points and the alerts of the product stay)
DeleteProduct(p) ==
    /\ p \in DOMAIN products
    /\ products[p].active
    /\ products' = [products EXCEPT ![p].active = FALSE]
    /\ UNCHANGED <<setup, now, price_points, alerts, procs, queue, trig>>

----------------------------------------------------------------------------
(* update_product_price(product_id): query, scrape, add + commit *)

\* product = query(Product).filter(id == product_id, active == True).first()
\* (an inactive or unknown product returns False and changes nothing)
UPP_Start(w, p) ==
    /\ procs[w].pc = "idle"
    /\ Len(price_points) < MaxPoints
    /\ products[p].active
    /\ procs' = Set(w, [IdleProc EXCEPT !.pc = "upp_scrape", !.product_id = p])
    /\ UNCHANGED <<setup, now, products, price_points, alerts, queue, trig>>

\* product_info = scraper_manager.scrape_product(product.url);
\* {} or no 'price' key returns False.  A scraper that finds no price element
\* returns 'price': None, which has the key.
UPP_Scrape(w) ==
    /\ procs[w].pc = "upp_scrape"
    /\ \/ \E price \in Prices \cup {NULL} :
             procs' = Set(w, [procs[w] EXCEPT !.pc = "upp_commit", !.price = price])
       \/ procs' = Set(w, IdleProc)
    /\ UNCHANGED <<setup, now, products, price_points, alerts, queue, trig>>

\* session.add(price_point); session.commit(); an exception rolls back.
\* price is NOT NULL: a None price always raises.
UPP_Commit(w) ==
    /\ procs[w].pc = "upp_commit"
    /\ \/ /\ procs[w].price # NULL
          /\ price_points' = Append(price_points,
                [product_id |-> procs[w].product_id, price |-> procs[w].price])
       \/ UNCHANGED price_points
    /\ procs' = Set(w, IdleProc)
    /\ UNCHANGED <<setup, now, products, alerts, queue, trig>>

----------------------------------------------------------------------------
(* check_product_alerts(price_update_result) *)

\* The chained task receives the result of one update_product_price; the
\* broker delivers it at any later time, and may deliver it again.
\* Lines 140-159: the query, now = utcnow(), and the loop over its rows.
CPA_Query(w, i) ==
    /\ procs[w].pc = "idle"
    /\ i \in 1..Len(price_points)
    /\ LET r == price_points[i]
           sel == SelectedAlerts(r.product_id, r.price)
       IN  procs' = Set(w, [IdleProc EXCEPT
               !.pc = "cpa_commit", !.product_id = r.product_id,
               !.price = r.price, !.tnow = now, !.loaded = sel,
               !.triggered = {a \in sel :
                   ShouldNotify(alerts[a].last_notified_at, now)}])
    /\ UNCHANGED <<setup, now, products, price_points, alerts, queue, trig>>

\* mutant of CPA_Commit: a rule that is notified is switched off as well
CPA_CommitDeactivate(w) ==
    /\ procs[w].pc = "cpa_commit"
    /\ \/ /\ procs[w].triggered = {}
          /\ procs' = Set(w, IdleProc)
          /\ UNCHANGED alerts
       \/ /\ procs[w].triggered # {}
          /\ alerts' = [a \in AlertIds |->
                IF a \in procs[w].triggered
                THEN [alerts[a] EXCEPT !.last_notified_at = procs[w].tnow,
                                       !.is_active = FALSE]
                ELSE alerts[a]]
          /\ procs' = Set(w, [procs[w] EXCEPT !.pc = "cpa_delay"])
    /\ UNCHANGED <<setup, now, products, price_points, queue, trig>>

\* if triggered_alerts: session.commit()  -- the commit may raise: rollback,
\* return an error and schedule nothing
CPA_Commit(w) ==
    /\ procs[w].pc = "cpa_commit"
    /\ \/ /\ procs[w].triggered = {}
          /\ procs' = Set(w, IdleProc)
          /\ UNCHANGED alerts
       \/ /\ procs[w].triggered # {}
          /\ alerts' = [a \in AlertIds |->
                IF a \in procs[w].triggered
                THEN [alerts[a] EXCEPT !.last_notified_at = procs[w].tnow]
                ELSE alerts[a]]
          /\ procs' = Set(w, [procs[w] EXCEPT !.pc = "cpa_delay"])
       \/ /\ procs[w].triggered # {}
          /\ procs' = Set(w, IdleProc)
          /\ UNCHANGED alerts
    /\ UNCHANGED <<setup, now, products, price_points, queue, trig>>

\* send_price_alert_notifications.delay(alert_ids=triggered_alerts, ...)
CPA_Delay(w) ==
    /\ procs[w].pc = "cpa_delay"
    /\ queue' = Append(queue, Message(procs[w].triggered, procs[w].product_id,
                                      procs[w].price))
    /\ trig' = Push(trig, procs[w].triggered, procs[w].tnow)
    /\ procs' = Set(w, IdleProc)
    /\ UNCHANGED <<setup, now, products, price_points, alerts>>

----------------------------------------------------------------------------
(* check_price_alerts(): the hourly Celery task *)

\* alerts = query(PriceAlert).filter(is_active == True).all(); now = utcnow()
CK_Query(w) ==
    /\ procs[w].pc = "idle"
    /\ LET act == {a \in AlertIds : alerts[a].is_active}
       IN  procs' = Set(w, [IdleProc EXCEPT
               !.pc = "ck_loop", !.tnow = now, !.loaded = act, !.todo = act,
               !.rows = [a \in AlertIds |-> alerts[a].last_notified_at]])
    /\ UNCHANGED <<setup, now, products, price_points, alerts, queue, trig>>

\* one iteration of the loop, lines 207-235: the alert is marked in the
\* session and its notification is scheduled at once; nothing is committed
CK_Step(w) ==
    /\ procs[w].pc = "ck_loop"
    /\ procs[w].todo # {}
    /\ LET a == Min(procs[w].todo)
           rest == procs[w].todo \ {a}
           skip == Set(w, [procs[w] EXCEPT !.todo = rest])
       IN  \/ /\ SkipRecent(procs[w].rows[a], procs[w].tnow)
              /\ procs' = skip
              /\ UNCHANGED <<queue, trig>>
           \/ /\ ~SkipRecent(procs[w].rows[a], procs[w].tnow)
              /\ LatestPrices(alerts[a].product_id) = {}
              /\ procs' = skip
              /\ UNCHANGED <<queue, trig>>
           \/ /\ ~SkipRecent(procs[w].rows[a], procs[w].tnow)
              /\ \E latest_price \in LatestPrices(alerts[a].product_id) :
                    IF latest_price.price <= alerts[a].target_price
                    THEN /\ procs' = Set(w, [procs[w] EXCEPT
                                !.todo = rest,
                                !.rows[a] = procs[w].tnow,
                                !.triggered = procs[w].triggered \cup {a}])
                         /\ queue' = Append(queue,
                                Message({a}, alerts[a].product_id,
                                        latest_price.price))
                         /\ trig' = Push(trig, {a}, procs[w].tnow)
                    ELSE /\ procs' = skip
                         /\ UNCHANGED <<queue, trig>>
           \* a query raises: except -> session.rollback(), return
           \/ /\ procs' = Set(w, IdleProc)
              /\ UNCHANGED <<queue, trig>>
    /\ UNCHANGED <<setup, now, products, price_points, alerts>>

\* if triggered_count > 0: session.commit()  -- or the commit raises: rollback
CK_Commit(w) ==
    /\ procs[w].pc = "ck_loop"
    /\ procs[w].todo = {}
    /\ \/ /\ procs[w].triggered # {}
          /\ alerts' = [a \in AlertIds |->
                IF a \in procs[w].triggered
                THEN [alerts[a] EXCEPT !.last_notified_at = procs[w].tnow]
                ELSE alerts[a]]
       \/ UNCHANGED alerts
    /\ procs' = Set(w, IdleProc)
    /\ UNCHANGED <<setup, now, products, price_points, queue, trig>>

----------------------------------------------------------------------------
(* TaskScheduler.check_price_alerts(): the scheduler thread *)

\* where a job of the scheduler thread can be: schedule.run_pending() runs
\* the jobs of the one scheduler thread in turn, never two at once
SchedulerPcs ==
    {"sc_loop", "sc_decided", "sc_update", "sw_scrape", "sw_commit",
     "sw_failed"}

\* alerts = query(PriceAlert).filter(is_active == True).all()
SC_Query(w) ==
    /\ procs[w].pc = "idle"
    /\ \A v \in Workers : procs[v].pc \notin SchedulerPcs
    /\ LET act == {a \in AlertIds : alerts[a].is_active}
       IN  procs' = Set(w, [IdleProc EXCEPT
               !.pc = "sc_loop", !.loaded = act, !.todo = act,
               !.rows = [a \in AlertIds |-> alerts[a].last_notified_at]])
    /\ UNCHANGED <<setup, now, products, price_points, alerts, queue, trig>>

\* lines 131-153 for one alert: latest price, threshold, cooldown.
\* The session answers from what it loaded until a commit expired it.
SC_Step(w) ==
    /\ procs[w].pc = "sc_loop"
    /\ procs[w].todo # {}
    /\ LET a == Min(procs[w].todo)
           skip == Set(w, [procs[w] EXCEPT !.todo = procs[w].todo \ {a}])
           last == IF procs[w].expired THEN alerts[a].last_notified_at
                   ELSE procs[w].rows[a]
       IN  \/ /\ LatestPrices(alerts[a].product_id) = {}
              /\ procs' = skip
           \/ \E latest_price \in LatestPrices(alerts[a].product_id) :
                 IF latest_price.price <= alerts[a].target_price
                 THEN procs' = Set(w, [procs[w] EXCEPT
                         !.pc = "sc_decided", !.cur = a,
                         !.price = latest_price.price,
                         !.product_id = alerts[a].product_id,
                         !.seen = last, !.tnow = now,
                         !.should_notify = ShouldNotify(last, now)])
                 ELSE procs' = skip
           \* a query raises: the except of line 166 logs and goes on
           \/ procs' = skip
    /\ UNCHANGED <<setup, now, products, price_points, alerts, queue, trig>>

\* the locals of one iteration are dead once it is over
NextAlertOf(r) ==
    [r EXCEPT !.pc = "sc_loop", !.todo = r.todo \ {r.cur}, !.cur = 0,
              !.price = 0, !.product_id = 0, !.seen = NULL, !.tnow = 0,
              !.should_notify = FALSE]

\* if should_notify: (line 155) -- not taken
SC_Skip(w) ==
    /\ procs[w].pc = "sc_decided"
    /\ ~procs[w].should_notify
    /\ procs' = Set(w, NextAlertOf(procs[w]))
    /\ UNCHANGED <<setup, now, products, price_points, alerts, queue, trig>>

\* if should_notify: results =
\*    self.notification_manager.send_price_alert(alert, product, latest_price)
SC_Send(w) ==
    /\ procs[w].pc = "sc_decided"
    /\ procs[w].should_notify
    /\ trig' = Push(trig, {procs[w].cur}, procs[w].tnow)
    /\ procs' = Set(w, [procs[w] EXCEPT !.pc = "sc_update"])
    /\ UNCHANGED <<setup, now, products, price_points, alerts, queue>>

\* alert.last_notified_at = datetime.utcnow(); session.commit()
\* a commit that raises is logged by the except of line 166
SC_Update(w) ==
    /\ procs[w].pc = "sc_update"
    /\ \/ /\ alerts' = [alerts EXCEPT ![procs[w].cur].last_notified_at = now]
          /\ procs' = Set(w, [NextAlertOf(procs[w]) EXCEPT !.expired = TRUE])
       \/ /\ UNCHANGED alerts
          /\ procs' = Set(w, NextAlertOf(procs[w]))
    /\ UNCHANGED <<setup, now, products, price_points, queue, trig>>

\* the loop is over: session.close()
SC_Done(w) ==
    /\ procs[w].pc = "sc_loop"
    /\ procs[w].todo = {}
    /\ procs' = Set(w, IdleProc)
    /\ UNCHANGED <<setup, now, products, price_points, alerts, queue, trig>>

----------------------------------------------------------------------------
(* The notification task and process failure *)

\* a worker takes send_price_alert_notifications(alert_ids, product_id,
\* price_data) off the broker and dispatches it
SendTask(i) ==
    /\ i \in 1..Len(queue)
    /\ queue' = [j \in 1..(Len(queue) - 1) |->
                    IF j < i THEN queue[j] ELSE queue[j + 1]]
    /\ UNCHANGED <<setup, now, products, price_points, alerts, procs, trig>>

\* the process of a worker dies: its session and its locals are gone.  A
\* death after send_price_alert was entered is a crash of that dispatch.
Crash(w) ==
    /\ procs[w].pc # "idle"
    /\ trig' = IF procs[w].pc = "sc_update"
               THEN [trig EXCEPT ![procs[w].cur].crashed = TRUE]
               ELSE trig
    /\ procs' = Set(w, IdleProc)
    /\ UNCHANGED <<setup, now, products, price_points, alerts, queue>>

----------------------------------------------------------------------------
(* The alert evaluator: price updates and every alert path, one task at a   *)
(* time, with commits that fail and processes that die                     *)

\* Both alerts watch product 1, alert 1 at target 1 and alert 2 at target 2;
\* product 2 has no alert.  Alert 2 may have been switched off.  No alert
\* was notified yet.
InitAlert ==
    /\ now = 0
    /\ products = [p \in ProductIds |-> [active |-> TRUE]]
    /\ price_points = <<>>
    /\ \E act2 \in BOOLEAN :
          alerts = [a \in AlertIds |->
             [product_id |-> 1,
              target_price |-> a,
              is_active |-> IF a = 1 THEN TRUE ELSE act2,
              last_notified_at |-> NULL,
              notification_email |-> "addr",
              notification_telegram |-> "",
              notification_phone |-> ""]]
    /\ notifiers = [n \in Notifiers |-> "configured"]
    /\ scrapers = StoreNames
    /\ stores = {"Amazon"}
    /\ refresh = <<>>
    /\ sched = NewScheduler
    /\ procs = [w \in Workers |-> IdleProc]
    /\ queue = <<>>
    /\ trig = [a \in AlertIds |-> NoTrig]

\* the broker holds no message
Quiet == queue = <<>>

\* the worker that runs the tasks one at a time
Solo == {"w1"}

\* SendTask touches the broker alone and nothing else reads the broker, so
\* it commutes with every other step: taking it first loses no behaviour of
\* the evaluator.
NextAlert ==
    \/ \E i \in {1} : SendTask(i)
    \/ Quiet /\ Tick
    \/ \E w \in Solo : \E p \in ProductIds : Quiet /\ UPP_Start(w, p)
    \/ \E w \in Solo : Quiet /\ UPP_Scrape(w)
    \/ \E w \in Solo : Quiet /\ UPP_Commit(w)
    \/ \E w \in Solo : \E i \in 1..MaxPoints : Quiet /\ CPA_Query(w, i)
    \/ \E w \in Solo : Quiet /\ CPA_Commit(w)
    \/ \E w \in Solo : Quiet /\ CPA_Delay(w)
    \/ \E w \in Solo : Quiet /\ CK_Query(w)
    \/ \E w \in Solo : Quiet /\ CK_Step(w)
    \/ \E w \in Solo : Quiet /\ CK_Commit(w)
    \/ \E w \in Solo : Quiet /\ SC_Query(w)
    \/ \E w \in Solo : Quiet /\ SC_Step(w)
    \/ \E w \in Solo : Quiet /\ SC_Skip(w)
    \/ \E w \in Solo : Quiet /\ SC_Send(w)
    \/ \E w \in Solo : Quiet /\ SC_Update(w)
    \/ \E w \in Solo : Quiet /\ SC_Done(w)
    \/ \E w \in Solo : Quiet /\ Crash(w)

SpecAlert == InitAlert /\ [][NextAlert]_vars

----------------------------------------------------------------------------
(* Concurrent evaluations: the three alert paths on two workers over a     *)
(* price_points table that already holds one observation of product 1      *)

InitRace ==
    /\ now = 0
    /\ products = [p \in ProductIds |-> [active |-> TRUE]]
    /\ \E price \in Prices :
          price_points = <<[product_id |-> 1, price |-> price]>>
    /\ \E act2 \in BOOLEAN :
          alerts = [a \in AlertIds |->
             [product_id |-> 1,
              target_price |-> a,
              is_active |-> IF a = 1 THEN TRUE ELSE act2,
              last_notified_at |-> NULL,
              notification_email |-> "addr",
              notification_telegram |-> "",
              notification_phone |-> ""]]
    /\ notifiers = [n \in Notifiers |-> "configured"]
    /\ scrapers = StoreNames
    /\ stores = {"Amazon"}
    /\ refresh = <<>>
    /\ sched = NewScheduler
    /\ procs = [w \in Workers |-> IdleProc]
    /\ queue = <<>>
    /\ trig = [a \in AlertIds |-> NoTrig]

NextRace ==
    \/ \E i \in {1} : SendTask(i)
    \/ Quiet /\ Tick
    \/ \E w \in Workers : \E i \in 1..MaxPoints : Quiet /\ CPA_Query(w, i)
    \/ \E w \in Workers : Quiet /\ CPA_Commit(w)
    \/ \E w \in Workers : Quiet /\ CPA_Delay(w)
    \/ \E w \in Workers : Quiet /\ CK_Query(w)
    \/ \E w \in Workers : Quiet /\ CK_Step(w)
    \/ \E w \in Workers : Quiet /\ CK_Commit(w)
    \/ \E w \in Workers : Quiet /\ SC_Query(w)
    \/ \E w \in Workers : Quiet /\ SC_Step(w)
    \/ \E w \in Workers : Quiet /\ SC_Skip(w)
    \/ \E w \in Workers : Quiet /\ SC_Send(w)
    \/ \E w \in Workers : Quiet /\ SC_Update(w)
    \/ \E w \in Workers : Quiet /\ SC_Done(w)

SpecRace == InitRace /\ [][NextRace]_vars

----------------------------------------------------------------------------
(* Claims about the alert evaluator *)

\* worker w has decided to notify alert a and has not yet finished with it
Decided(w, a) ==
    \/ procs[w].pc \in {"cpa_commit", "cpa_delay"} /\ a \in procs[w].triggered
    \/ procs[w].pc = "ck_loop" /\ a \in procs[w].triggered
    \/ procs[w].pc = "sc_decided" /\ procs[w].should_notify /\ procs[w].cur = a
    \/ procs[w].pc = "sc_update" /\ procs[w].cur = a

\* C1: any two notifications triggered for one alert rule are at least 24
\* hours apart.
C1_TriggersADayApart ==
    \A a \in AlertIds :
        trig[a].prev # NULL => trig[a].last - trig[a].prev >= DaySeconds

\* C2: when the dispatch for a rule is attempted, the rule's last_notified_at
\* has already been persisted with the time of that decision.  The dispatch
\* was attempted once the scheduler is past send_price_alert (sc_update) and
\* once check_price_alerts has called .delay for the rule (triggered).
C2_PersistedBeforeDispatch ==
    \A w \in Workers :
        /\ procs[w].pc = "sc_update" =>
              alerts[procs[w].cur].last_notified_at >= procs[w].tnow
        /\ procs[w].pc = "ck_loop" =>
              \A a \in procs[w].triggered :
                  alerts[a].last_notified_at >= procs[w].tnow

\* C3: after a dispatch for a rule crashed, no evaluation within 24 hours of
\* that dispatch selects the rule to notify again.
C3_NoRepeatAfterCrash ==
    \A a \in AlertIds : \A w \in Workers :
        trig[a].crashed /\ Decided(w, a) =>
            procs[w].tnow - trig[a].last >= DaySeconds

\* C5: two evaluations in flight at once never both decide to notify the
\* same rule within one 24-hour window.
C5_NoDoubleDecision ==
    \A a \in AlertIds : \A w1 \in Workers : \A w2 \in Workers \ {w1} :
        Decided(w1, a) /\ Decided(w2, a) =>
            \/ procs[w1].tnow - procs[w2].tnow >= DaySeconds
            \/ procs[w2].tnow - procs[w1].tnow >= DaySeconds

\* C9: the evaluator decides to notify a selected rule exactly when the
\* rule's last_notified_at is null or at least 24 hours before the decision,
\* on the per-product path and on the scheduler path.
C9_CooldownPredicate ==
    \A w \in Workers :
        /\ procs[w].pc = "cpa_commit" =>
              procs[w].triggered =
                 {a \in procs[w].loaded :
                     \/ alerts[a].last_notified_at = NULL
                     \/ procs[w].tnow - alerts[a].last_notified_at >= DaySeconds}
        /\ procs[w].pc = "sc_decided" =>
              procs[w].should_notify =
                 (\/ alerts[procs[w].cur].last_notified_at = NULL
                  \/ procs[w].tnow - alerts[procs[w].cur].last_notified_at
                        >= DaySeconds)

\* C9 witness: a rule last notified exactly 24 hours ago is notified
C9_Witness ==
    \E w \in Workers :
        /\ procs[w].pc = "sc_decided"
        /\ procs[w].should_notify
        /\ alerts[procs[w].cur].last_notified_at # NULL
        /\ procs[w].tnow - alerts[procs[w].cur].last_notified_at = DaySeconds

\* the rules the selection predicate of the specification picks for the
\* observation worker w evaluates
SpecSelection(w) ==
    {a \in AlertIds : /\ alerts[a].is_active
                      /\ alerts[a].product_id = procs[w].product_id
                      /\ procs[w].price <= alerts[a].target_price}

\* C10: check_product_alerts selects exactly the active rules of the
\* observation's product whose target_price is at least the observed price,
\* and its steps leave last_notified_at and the triggers of every other rule
\* unchanged.
C10_SelectionPredicate ==
    [][\A w \in Workers :
          /\ procs'[w].pc = "cpa_commit" =>
                procs'[w].loaded = SpecSelection(w)'
          /\ procs[w].pc \in {"cpa_commit", "cpa_delay"} /\ procs'[w] # procs[w] =>
                \A a \in AlertIds \ SpecSelection(w) :
                    alerts'[a] = alerts[a] /\ trig'[a] = trig[a]]_vars

\* C10 witness: an observation at exactly the target of one rule and above
\* the target of another rule of the same product was evaluated and notified
C10_Witness ==
    \E w \in Workers :
        /\ procs[w].pc = "idle"
        /\ \E a \in AlertIds : \E b \in AlertIds :
              /\ alerts[a].last_notified_at # NULL
              /\ alerts[b].last_notified_at = NULL
              /\ alerts[b].is_active
              /\ trig[a].last # NULL /\ trig[b].last = NULL
              /\ \E i \in 1..Len(queue) :
                    /\ queue[i].alert_ids = {a}
                    /\ queue[i].price = alerts[a].target_price
                    /\ queue[i].price > alerts[b].target_price

----------------------------------------------------------------------------
(* TaskScheduler.update_all_prices(): the sweep of the scheduler thread *)

\* the active products, as a sweep finds them
ActiveProducts == {p \in ProductIds : products[p].active}

\* a sweep that leaves out the products the sweep before it failed on
SW_StartSkipFailed(w) ==
    /\ procs[w].pc = "idle"
    /\ \A v \in Workers : procs[v].pc \notin SchedulerPcs
    /\ Len(price_points) < MaxPoints
    /\ procs' = Set(w, [IdleProc EXCEPT
            !.pc = "sw_scrape", !.loaded = ActiveProducts \ sched.failed,
            !.todo = ActiveProducts \ sched.failed,
            !.base = Len(price_points)])
    /\ UNCHANGED <<setup, now, products, price_points, alerts, queue, trig>>

\* products = query(Product).filter(active == True).all()
SW_Start(w) ==
    /\ procs[w].pc = "idle"
    /\ \A v \in Workers : procs[v].pc \notin SchedulerPcs
    /\ Len(price_points) < MaxPoints
    /\ procs' = Set(w, [IdleProc EXCEPT
            !.pc = "sw_scrape", !.loaded = ActiveProducts,
            !.todo = ActiveProducts, !.base = Len(price_points)])
    /\ UNCHANGED <<setup, now, products, price_points, alerts, queue, trig>>

\* product_info = self.scraper_manager.scrape_product(product.url);
\* {} or no 'price' key: warning, continue.  The product comes from the
\* list loaded at the start of the sweep and its active flag is not read
\* again; stale remembers that it was inactive when its refresh began.
SW_Scrape(w) ==
    /\ procs[w].pc = "sw_scrape"
    /\ procs[w].todo # {}
    /\ LET p == Min(procs[w].todo)
       IN  \/ \E price \in Prices \cup {NULL} :
                procs' = Set(w, [procs[w] EXCEPT
                    !.pc = "sw_commit", !.cur = p, !.price = price,
                    !.stale = ~products[p].active,
                    !.retried = procs[w].retried \cup
                                    ({p} \cap procs[w].tried),
                    !.tried = procs[w].tried \cup {p}])
           \/ procs' = Set(w, [procs[w] EXCEPT
                    !.todo = procs[w].todo \ {p},
                    !.tried = procs[w].tried \cup {p},
                    !.retried = procs[w].retried \cup
                                    ({p} \cap procs[w].tried),
                    !.broke = procs[w].broke \cup {p}])
    /\ UNCHANGED <<setup, now, products, price_points, alerts, queue, trig>>

\* a commit step whose failure leaves the product in the loop to be tried
\* again
SW_CommitRetry(w) ==
    /\ procs[w].pc = "sw_commit"
    /\ LET p == procs[w].cur
           next == [procs[w] EXCEPT !.pc = "sw_scrape", !.cur = 0, !.price = 0]
       IN  \/ /\ procs[w].price # NULL
              /\ price_points' = Append(price_points,
                    [product_id |-> p, price |-> procs[w].price])
              /\ procs' = Set(w, [next EXCEPT !.scraped[p] = procs[w].price,
                                              !.todo = procs[w].todo \ {p}])
           \/ /\ UNCHANGED price_points
              /\ procs' = Set(w, next)
    /\ UNCHANGED <<setup, now, products, alerts, queue, trig>>

\* session.add(price_point); session.commit() for this product alone; an
\* exception (always, for a None price) is logged and rolled back, and the
\* loop goes on
SW_Commit(w) ==
    /\ procs[w].pc = "sw_commit"
    /\ LET p == procs[w].cur
           next == [procs[w] EXCEPT !.pc = "sw_scrape", !.cur = 0, !.price = 0,
                                    !.todo = procs[w].todo \ {p}]
       IN  \/ /\ procs[w].price # NULL
              /\ price_points' = Append(price_points,
                    [product_id |-> p, price |-> procs[w].price])
              /\ procs' = Set(w, [next EXCEPT !.scraped[p] = procs[w].price])
           \/ /\ UNCHANGED price_points
              /\ procs' = Set(w, [next EXCEPT
                    !.broke = procs[w].broke \cup {p}])
    /\ UNCHANGED <<setup, now, products, alerts, queue, trig>>

\* the loop is over: "Price update completed", session.close()
SW_Done(w) ==
    /\ procs[w].pc = "sw_scrape"
    /\ procs[w].todo = {}
    /\ procs' = Set(w, IdleProc)
    /\ sched' = [sched EXCEPT !.failed = procs[w].broke]
    /\ UNCHANGED <<stores, notifiers, scrapers, refresh, now, products, price_points,
                   alerts, queue, trig>>

----------------------------------------------------------------------------
(* ScraperManager.update_all_products(): the sweep of start_scraping();    *)
(* the all-products branch of cli cmd_update has the same shape            *)

\* products = query(Product).filter(active == True).all()
MG_Start(w) ==
    /\ procs[w].pc = "idle"
    /\ Len(price_points) < MaxPoints
    /\ procs' = Set(w, [IdleProc EXCEPT
            !.pc = "mg_scrape", !.loaded = ActiveProducts,
            !.todo = ActiveProducts, !.base = Len(price_points)])
    /\ UNCHANGED <<setup, now, products, price_points, alerts, queue, trig>>

\* one iteration: scrape_product; {} or no 'price' key: continue; otherwise
\* session.add(price_point) -- nothing is committed inside the loop
MG_Scrape(w) ==
    /\ procs[w].pc = "mg_scrape"
    /\ procs[w].todo # {}
    /\ LET p == Min(procs[w].todo)
           next == [procs[w] EXCEPT !.todo = procs[w].todo \ {p},
                                    !.tried = procs[w].tried \cup {p}]
       IN  \/ \E price \in Prices :
                procs' = Set(w, [next EXCEPT
                    !.pending = Append(procs[w].pending,
                                       [product_id |-> p, price |-> price]),
                    !.scraped[p] = price])
           \/ procs' = Set(w, [next EXCEPT
                    !.pending = Append(procs[w].pending,
                                       [product_id |-> p, price |-> NULL]),
                    !.broke = procs[w].broke \cup {p}])
           \/ procs' = Set(w, [next EXCEPT !.broke = procs[w].broke \cup {p}])
    /\ UNCHANGED <<setup, now, products, price_points, alerts, queue, trig>>

\* session.commit() after the loop: one transaction for every row of the
\* sweep.  A row with a None price breaks price NOT NULL: the commit raises
\* and session.rollback() drops all of them.  The store itself may fail too.
MG_Commit(w) ==
    /\ procs[w].pc = "mg_scrape"
    /\ procs[w].todo = {}
    /\ LET bad == \E i \in 1..Len(procs[w].pending) :
                     procs[w].pending[i].price = NULL
       IN  \/ /\ ~bad
              /\ price_points' = price_points \o procs[w].pending
              /\ procs' = Set(w, [procs[w] EXCEPT !.pc = "mg_done",
                                                  !.pending = <<>>])
           \/ /\ bad
              /\ UNCHANGED price_points
              /\ procs' = Set(w, [procs[w] EXCEPT !.pc = "mg_done",
                                                  !.pending = <<>>])
           \/ /\ ~bad
              /\ UNCHANGED price_points
              /\ procs' = Set(w, [procs[w] EXCEPT !.pc = "mg_done",
                                                  !.pending = <<>>,
                                                  !.outage = TRUE])
    /\ UNCHANGED <<setup, now, products, alerts, queue, trig>>

\* finally: session.close()
MG_Close(w) ==
    /\ procs[w].pc = "mg_done"
    /\ procs' = Set(w, IdleProc)
    /\ UNCHANGED <<setup, now, products, price_points, alerts, queue, trig>>

----------------------------------------------------------------------------
(* The sweeps and the single refreshes, on two workers *)

InitSweep ==
    /\ now = 0
    /\ products \in [ProductIds -> [active : BOOLEAN]]
    /\ price_points = <<>>
    /\ alerts = [a \in AlertIds |->
             [product_id |-> 1,
              target_price |-> a,
              is_active |-> TRUE,
              last_notified_at |-> NULL,
              notification_email |-> "addr",
              notification_telegram |-> "",
              notification_phone |-> ""]]
    /\ notifiers = [n \in Notifiers |-> "configured"]
    /\ scrapers = StoreNames
    /\ stores = {"Amazon"}
    /\ refresh = <<>>
    /\ sched = NewScheduler
    /\ procs = [w \in Workers |-> IdleProc]
    /\ queue = <<>>
    /\ trig = [a \in AlertIds |-> NoTrig]

NextSweep ==
    \/ \E w \in Workers : \E p \in ProductIds : UPP_Start(w, p)
    \/ \E w \in Workers : UPP_Scrape(w)
    \/ \E w \in Workers : UPP_Commit(w)
    \/ \E w \in Solo : SW_Start(w)
    \/ \E w \in Solo : SW_Scrape(w)
    \/ \E w \in Solo : SW_Commit(w)
    \/ \E w \in Solo : SW_Done(w)
    \/ \E w \in Workers : MG_Start(w)
    \/ \E w \in Workers : MG_Scrape(w)
    \/ \E w \in Workers : MG_Commit(w)
    \/ \E w \in Workers : MG_Close(w)

SpecSweep == InitSweep /\ [][NextSweep]_vars

----------------------------------------------------------------------------
(* Claims about the sweeps *)

\* worker w refreshes product p: update_product_price between its query
\* and its commit
Refreshing(w, p) ==
    procs[w].pc \in {"upp_scrape", "upp_commit"} /\ procs[w].product_id = p

\* C4: at most one refresh is in flight per product at any time.
C4_OneRefreshPerProduct ==
    \A p \in ProductIds : \A w1 \in Workers : \A w2 \in Workers \ {w1} :
        ~(Refreshing(w1, p) /\ Refreshing(w2, p))

\* the sweep of worker w has gone through its loop and its last commit
SweepOver(w) ==
    \/ procs[w].pc = "sw_scrape" /\ procs[w].todo = {}
    \/ procs[w].pc = "mg_done"

\* C6: when a sweep is over and the store did not fail, every product of the
\* sweep was attempted, and every product whose own refresh did not fail has
\* its observation of this sweep in price_points, whatever happened to the
\* other products.
C6_SweepFailureIsolation ==
    \A w \in Workers :
        SweepOver(w) /\ ~procs[w].outage =>
            /\ procs[w].loaded \subseteq procs[w].tried
            /\ \A p \in procs[w].loaded \ procs[w].broke :
                  \E i \in (procs[w].base + 1)..Len(price_points) :
                      price_points[i] =
                          [product_id |-> p, price |-> procs[w].scraped[p]]

----------------------------------------------------------------------------
(* The channel senders: EmailNotifier, TelegramNotifier, TwilioNotifier    *)

\* mutant of EndpointOf: every channel is addressed by the email endpoint
EndpointOfEmail(alert, channel) == alert.notification_email

\* the endpoint of a rule for a channel
EndpointOf(alert, channel) ==
    CASE channel = "email" -> alert.notification_email
      [] channel = "telegram" -> alert.notification_telegram
      [] channel = "sms" -> alert.notification_phone

\* mutant of SendNotification: an exception of the transport leaves the sender
SendNotificationRaises(state, transport) ==
    [raised |-> state = "configured" /\ transport = "error",
     value |-> state = "configured" /\ transport = "delivered"]

\* send_notification: if not self.is_configured(): return False;
\* try: ... return True; except Exception: return False
SendNotification(state, transport) ==
    [raised |-> FALSE,
     value |-> state = "configured" /\ transport = "delivered"]

\* NotificationManager.send_test_notification: False for a notifier that is
\* missing or not configured, otherwise what send_notification returns
SendTestNotification(state, transport) ==
    IF state = "missing" \/ state # "configured"
    THEN [raised |-> FALSE, value |-> FALSE]
    ELSE SendNotification(state, transport)

\* one entry of an outcome map, and one call of a sender
Outcome(a, channel, ok) == [alert |-> a, channel |-> channel, ok |-> ok]

Attempt(a, channel, transport) ==
    [alert |-> a, channel |-> channel, transport |-> transport]

----------------------------------------------------------------------------
(* NotificationManager.send_price_alert(alert, product, price_point)       *)

\* results = {}
SPA_Start(w, a) ==
    /\ procs[w].pc = "idle"
    /\ procs' = Set(w, [IdleProc EXCEPT
            !.pc = "spa_send", !.cur = a, !.loaded = {a}, !.chan = 1])
    /\ UNCHANGED <<setup, now, products, price_points, alerts, queue, trig>>

\* one of the three blocks of lines 72-102: if the endpoint is set and the
\* notifier is there, and if notifier.is_configured():
\*     results[channel] = notifier.send_notification(...)
\* Nothing here catches an exception: one that left a sender would end the
\* dispatch without a result.
SPA_Channel(w) ==
    /\ procs[w].pc = "spa_send"
    /\ procs[w].chan <= Len(Channels)
    /\ LET a == procs[w].cur
           channel == Channels[procs[w].chan]
           state == notifiers[NotifierOf(channel)]
           next == [procs[w] EXCEPT !.chan = procs[w].chan + 1]
       IN  IF EndpointOf(alerts[a], channel) # "" /\ state # "missing"
              /\ state = "configured"
           THEN \E transport \in Transports :
                  LET r == SendNotification(state, transport)
                  IN  IF r.raised
                      THEN procs' = Set(w, [procs[w] EXCEPT
                              !.chan = Len(Channels) + 1, !.results = {},
                              !.aborted = TRUE,
                              !.attempted = procs[w].attempted \cup
                                  {Attempt(a, channel, transport)}])
                      ELSE procs' = Set(w, [next EXCEPT
                              !.results = procs[w].results \cup
                                  {Outcome(a, channel, r.value)},
                              !.attempted = procs[w].attempted \cup
                                  {Attempt(a, channel, transport)}])
           ELSE procs' = Set(w, next)
    /\ UNCHANGED <<setup, now, products, price_points, alerts, queue, trig>>

\* return results
SPA_Return(w) ==
    /\ procs[w].pc = "spa_send"
    /\ procs[w].chan > Len(Channels)
    /\ procs' = Set(w, IdleProc)
    /\ UNCHANGED <<setup, now, products, price_points, alerts, queue, trig>>

----------------------------------------------------------------------------
(* send_price_alert_notifications(alert_ids, product_id, price_data)       *)

\* a worker takes the message off the broker; no alert ids is an error;
\* alerts = query(PriceAlert).filter(PriceAlert.id.in_(alert_ids)).all()
SPN_Start(w) ==
    /\ procs[w].pc = "idle"
    /\ queue # <<>>
    /\ queue' = Tail(queue)
    /\ LET found == Head(queue).alert_ids \cap DOMAIN alerts
       IN  procs' = Set(w, IF found = {}
                           THEN IdleProc
                           ELSE [IdleProc EXCEPT
                                   !.pc = "spn_alert",
                                   !.product_id = Head(queue).product_id,
                                   !.price = Head(queue).price,
                                   !.loaded = found,
                                   !.todo = found])
    /\ UNCHANGED <<setup, now, products, price_points, alerts, trig>>

\* for alert in alerts: alert_results = {}
SPN_Alert(w) ==
    /\ procs[w].pc = "spn_alert"
    /\ procs[w].todo # {}
    /\ procs' = Set(w, [procs[w] EXCEPT
            !.pc = "spn_send", !.cur = Min(procs[w].todo), !.chan = 1])
    /\ UNCHANGED <<setup, now, products, price_points, alerts, queue, trig>>

\* one of the three blocks of lines 73-94: if the endpoint is set:
\*     alert_results[channel] = send_test_notification(notifier, ...)
\* and after the third, results[alert.id] = alert_results.  The except of
\* line 114 turns an exception into {'error': ...}.
SPN_Channel(w) ==
    /\ procs[w].pc = "spn_send"
    /\ LET a == procs[w].cur
           channel == Channels[procs[w].chan]
           state == notifiers[NotifierOf(channel)]
           next == IF procs[w].chan < Len(Channels)
                   THEN [procs[w] EXCEPT !.chan = procs[w].chan + 1]
                   ELSE [procs[w] EXCEPT !.pc = "spn_alert", !.chan = 0,
                            !.cur = 0, !.todo = procs[w].todo \ {a}]
       IN  IF EndpointOf(alerts[a], channel) # ""
           THEN \E transport \in Transports :
                  LET r == SendTestNotification(state, transport)
                      calls == IF state = "configured"
                               THEN {Attempt(a, channel, transport)}
                               ELSE {}
                  IN  IF r.raised
                      THEN procs' = Set(w, [procs[w] EXCEPT
                              !.pc = "spn_alert", !.chan = 0, !.cur = 0,
                              !.todo = {}, !.results = {}, !.aborted = TRUE,
                              !.attempted = procs[w].attempted \cup calls])
                      ELSE procs' = Set(w, [next EXCEPT
                              !.results = procs[w].results \cup
                                  {Outcome(a, channel, r.value)},
                              !.attempted = procs[w].attempted \cup calls])
           ELSE procs' = Set(w, next)
    /\ UNCHANGED <<setup, now, products, price_points, alerts, queue, trig>>

\* return {'alerts_processed': ..., 'results': results}; session.close()
SPN_Return(w) ==
    /\ procs[w].pc = "spn_alert"
    /\ procs[w].todo = {}
    /\ procs' = Set(w, IdleProc)
    /\ UNCHANGED <<setup, now, products, price_points, alerts, queue, trig>>

----------------------------------------------------------------------------
(* The dispatcher: both dispatch paths over every combination of the       *)
(* endpoints of alert 1 and of the states of the three notifiers           *)

InitDispatch ==
    /\ now = 0
    /\ products = [p \in ProductIds |-> [active |-> TRUE]]
    /\ price_points = <<[product_id |-> 1, price |-> 1]>>
    /\ \E e \in Endpoints : \E t \in Endpoints : \E ph \in Endpoints :
          alerts = [a \in AlertIds |->
             [product_id |-> 1,
              target_price |-> a,
              is_active |-> TRUE,
              last_notified_at |-> NULL,
              notification_email |-> IF a = 1 THEN e ELSE "addr",
              notification_telegram |-> IF a = 1 THEN t ELSE "",
              notification_phone |-> IF a = 1 THEN ph ELSE ""]]
    /\ notifiers \in [Notifiers -> NotifierStates]
    /\ scrapers = StoreNames
    /\ stores = {"Amazon"}
    /\ refresh = <<>>
    /\ sched = NewScheduler
    /\ procs = [w \in Workers |-> IdleProc]
    /\ \E ids \in (SUBSET AlertIds) \ {{}} : queue = <<Message(ids, 1, 1)>>
    /\ trig = [a \in AlertIds |-> NoTrig]

NextDispatch ==
    \/ \E w \in Solo : \E a \in AlertIds : SPA_Start(w, a)
    \/ \E w \in Solo : SPA_Channel(w)
    \/ \E w \in Solo : SPA_Return(w)
    \/ \E w \in Solo : SPN_Start(w)
    \/ \E w \in Solo : SPN_Alert(w)
    \/ \E w \in Solo : SPN_Channel(w)
    \/ \E w \in Solo : SPN_Return(w)

SpecDispatch == InitDispatch /\ [][NextDispatch]_vars

----------------------------------------------------------------------------
(* Claims about the dispatcher *)

\* the dispatch of worker w is about to return
DispatchOver(w) ==
    \/ procs[w].pc = "spa_send" /\ procs[w].chan > Len(Channels)
    \/ procs[w].pc = "spn_alert" /\ procs[w].todo = {}

\* the channels of rule a with an endpoint and a configured sender
Deliverable(a) ==
    {c \in {Channels[i] : i \in 1..Len(Channels)} :
        /\ EndpointOf(alerts[a], c) # ""
        /\ notifiers[NotifierOf(c)] = "configured"}

\* C7: when a dispatch returns, it was not cut short, every channel of the
\* rule with an endpoint and a configured sender was attempted whatever the
\* other senders did, its outcome is in the result under its own key, and
\* the result has one entry per key.
C7_ChannelFailureIsolation ==
    \A w \in Workers :
        DispatchOver(w) =>
            /\ ~procs[w].aborted
            /\ \A a \in procs[w].loaded : \A c \in Deliverable(a) :
                  \E t \in procs[w].attempted :
                      /\ t.alert = a /\ t.channel = c
                      /\ Outcome(a, c, t.transport = "delivered")
                            \in procs[w].results
            /\ \A r1 \in procs[w].results : \A r2 \in procs[w].results :
                  r1.alert = r2.alert /\ r1.channel = r2.channel => r1 = r2

\* C7 witness: a dispatch returns after the first sender it called failed
\* and a later one delivered
C7_Witness ==
    \E w \in Workers : \E a \in AlertIds :
        /\ DispatchOver(w)
        /\ Attempt(a, "email", "error") \in procs[w].attempted
        /\ Outcome(a, "email", FALSE) \in procs[w].results
        /\ Outcome(a, "sms", TRUE) \in procs[w].results

\* C8: the outcome map a dispatch returns has an entry for exactly the
\* channels of the rule that have an endpoint and a configured sender; a
\* channel whose sender is not configured has no entry.
C8_UnconfiguredSkipped ==
    \A w \in Workers :
        DispatchOver(w) /\ ~procs[w].aborted =>
            {<<r.alert, r.channel>> : r \in procs[w].results} =
                {<<a, c>> \in procs[w].loaded \X {"email", "telegram", "sms"} :
                    c \in Deliverable(a)}

----------------------------------------------------------------------------
(* The per-product evaluator alone: refreshes and check_product_alerts,    *)
(* one task at a time, with commits that fail                              *)

NextCooldown ==
    \/ \E i \in {1} : SendTask(i)
    \/ Quiet /\ Tick
    \/ \E w \in Solo : \E p \in ProductIds : Quiet /\ UPP_Start(w, p)
    \/ \E w \in Solo : Quiet /\ UPP_Scrape(w)
    \/ \E w \in Solo : Quiet /\ UPP_Commit(w)
    \/ \E w \in Solo : \E i \in 1..MaxPoints : Quiet /\ CPA_Query(w, i)
    \/ \E w \in Solo : Quiet /\ CPA_Commit(w)
    \/ \E w \in Solo : Quiet /\ CPA_Delay(w)

SpecCooldown == InitAlert /\ [][NextCooldown]_vars

\* C11: a rule that was never notified is notified on a qualifying
\* observation; once it was notified at time t, a qualifying observation
\* evaluated before t + 24 h is suppressed and one evaluated at or after
\* t + 24 h is notified again.
C11_CooldownRearms ==
    \A w \in Workers :
        procs[w].pc = "cpa_commit" =>
            \A a \in procs[w].loaded :
                a \in procs[w].triggered <=>
                    \/ trig[a].last = NULL
                    \/ procs[w].tnow - trig[a].last >= DaySeconds

\* C11 witness: a rule notified before is notified again, a day or more
\* after its last notification
C11_Witness ==
    \E w \in Workers : \E a \in AlertIds :
        /\ procs[w].pc = "cpa_commit"
        /\ a \in procs[w].triggered
        /\ trig[a].last # NULL
        /\ alerts[a].last_notified_at = trig[a].last
        /\ procs[w].tnow >= trig[a].last + DaySeconds

----------------------------------------------------------------------------
(* The alert paths while products are deleted and rules are switched off   *)

NextInactive ==
    \/ \E i \in {1} : SendTask(i)
    \/ Quiet /\ Tick
    \/ \E p \in ProductIds : Quiet /\ DeleteProduct(p)
    \/ \E a \in AlertIds : Quiet /\ ToggleAlert(a)
    \/ \E w \in Solo : \E i \in 1..MaxPoints : Quiet /\ CPA_Query(w, i)
    \/ \E w \in Solo : Quiet /\ CPA_Commit(w)
    \/ \E w \in Solo : Quiet /\ CPA_Delay(w)
    \/ \E w \in Solo : Quiet /\ CK_Query(w)
    \/ \E w \in Solo : Quiet /\ CK_Step(w)
    \/ \E w \in Solo : Quiet /\ CK_Commit(w)
    \/ \E w \in Solo : Quiet /\ SC_Query(w)
    \/ \E w \in Solo : Quiet /\ SC_Step(w)
    \/ \E w \in Solo : Quiet /\ SC_Skip(w)
    \/ \E w \in Solo : Quiet /\ SC_Send(w)
    \/ \E w \in Solo : Quiet /\ SC_Update(w)
    \/ \E w \in Solo : Quiet /\ SC_Done(w)

SpecInactive == InitRace /\ [][NextInactive]_vars

\* C12: whenever an alert path decides to notify a rule, the rule is active
\* and its product is active at that moment.
C12_NoInactiveEvaluation ==
    [][\A w \in Workers : \A a \in AlertIds :
          ~Decided(w, a) /\ Decided(w, a)' =>
              /\ products[alerts[a].product_id].active
              /\ alerts[a].is_active]_vars

----------------------------------------------------------------------------
(* update_all_prices(): the Celery sweep that beat sends every 6 hours     *)

\* a set of product ids as the list the query returns, in id order
RECURSIVE IdList(_)
IdList(S) == IF S = {} THEN <<>> ELSE <<Min(S)>> \o IdList(S \ {Min(S)})

\* updated_count = 0; error_count = 0; the query of the active products;
\* one chain(update_product_price.s(id), check_product_alerts.s())
\* .apply_async() per product; the task does not wait for any of them
CB_UpdateAllPrices(w) ==
    /\ procs[w].pc = "idle"
    /\ Len(refresh) < MaxPending
    /\ Len(price_points) < MaxPoints
    /\ refresh' = refresh \o IdList(ActiveProducts)
    /\ procs' = Set(w, [IdleProc EXCEPT
            !.pc = "cb_done", !.loaded = ActiveProducts,
            !.summary = [scheduled_products |-> Cardinality(ActiveProducts),
                         updated_count |-> 0, error_count |-> 0]])
    /\ UNCHANGED <<stores, notifiers, scrapers, sched, now, products, price_points,
                   alerts, queue, trig>>

\* return {'scheduled_products': len(product_ids), 'timestamp': ...}
CB_Return(w) ==
    /\ procs[w].pc = "cb_done"
    /\ procs' = Set(w, IdleProc)
    /\ UNCHANGED <<setup, now, products, price_points, alerts, queue, trig>>

\* a worker takes the head of a chain off the broker and enters
\* update_product_price(product_id); a product that is no longer active
\* returns False at once
RF_Deliver(w) ==
    /\ procs[w].pc = "idle"
    /\ refresh # <<>>
    /\ refresh' = Tail(refresh)
    /\ procs' = IF products[Head(refresh)].active
                THEN Set(w, [IdleProc EXCEPT !.pc = "upp_scrape",
                                             !.product_id = Head(refresh)])
                ELSE procs
    /\ UNCHANGED <<stores, notifiers, scrapers, sched, now, products, price_points,
                   alerts, queue, trig>>

InitBeat ==
    /\ now = 0
    /\ products \in [ProductIds -> [active : BOOLEAN]]
    /\ price_points = <<>>
    /\ alerts = [a \in AlertIds |->
             [product_id |-> 1,
              target_price |-> a,
              is_active |-> TRUE,
              last_notified_at |-> NULL,
              notification_email |-> "addr",
              notification_telegram |-> "",
              notification_phone |-> ""]]
    /\ notifiers = [n \in Notifiers |-> "configured"]
    /\ scrapers = StoreNames
    /\ stores = {"Amazon"}
    /\ refresh = <<>>
    /\ sched = NewScheduler
    /\ procs = [w \in Workers |-> IdleProc]
    /\ queue = <<>>
    /\ trig = [a \in AlertIds |-> NoTrig]

NextBeat ==
    \/ \E w \in Workers : CB_UpdateAllPrices(w)
    \/ \E w \in Workers : CB_Return(w)
    \/ \E w \in Workers : RF_Deliver(w)
    \/ \E w \in Workers : UPP_Scrape(w)
    \/ \E w \in Workers : UPP_Commit(w)

SpecBeat == InitBeat /\ [][NextBeat]_vars

\* a refresh of some sweep is still queued or running
RefreshInFlight ==
    \/ refresh # <<>>
    \/ \E w \in Workers : procs[w].pc \in {"upp_scrape", "upp_commit"}

\* C13: a full sweep starts only when no per-product refresh of an earlier
\* sweep is still queued or running.
C13_SweepsDoNotOverlap ==
    [][\A w \in Workers :
          procs[w].pc = "idle" /\ procs'[w].pc = "cb_done" =>
              ~RefreshInFlight]_vars

\* C16: the summary a full sweep returns counts the active products it
\* loaded as attempted, and attempted = succeeded + failed.
C16_SweepSummary ==
    \A w \in Workers :
        procs[w].pc = "cb_done" =>
            /\ procs[w].summary.scheduled_products =
                  Cardinality(procs[w].loaded)
            /\ procs[w].summary.scheduled_products =
                  procs[w].summary.updated_count
                     + procs[w].summary.error_count

----------------------------------------------------------------------------
(* TaskScheduler.start(), stop() and _run_scheduler(): procs[w] is the job *)
(* the scheduler is in, sched.thread the position of start() and of the    *)
(* loop thread                                                             *)

\* start(): if self.running: return; self.running = True; the initial
\* self.update_all_prices() runs in the caller.  A start() that finds the
\* thread of an earlier start() still alive is not part of this model.
TS_Start(w) ==
    /\ ~sched.running
    /\ sched.thread \in {"none", "exit"}
    /\ procs[w].pc = "idle"
    /\ Len(price_points) < MaxPoints
    /\ sched' = [sched EXCEPT !.running = TRUE, !.thread = "init",
                              !.due = {}]
    /\ procs' = Set(w, [IdleProc EXCEPT
            !.pc = "sw_scrape", !.loaded = ActiveProducts,
            !.todo = ActiveProducts, !.base = Len(price_points)])
    /\ UNCHANGED <<stores, notifiers, scrapers, refresh, now, products, price_points,
                   alerts, queue, trig>>

\* start() after the initial sweep: threading.Thread(target=
\* self._run_scheduler), daemon, start()
TS_Spawn(w) ==
    /\ sched.thread = "init"
    /\ procs[w].pc = "idle"
    /\ sched' = [sched EXCEPT !.thread = "loop"]
    /\ UNCHANGED <<stores, notifiers, scrapers, refresh, now, products, price_points,
                   alerts, procs, queue, trig>>

\* stop(): if not self.running: return; self.running = False;
\* join(timeout=5) returns whether or not the thread has ended
TS_Stop ==
    /\ sched.running
    /\ sched' = [sched EXCEPT !.running = FALSE]
    /\ UNCHANGED <<stores, notifiers, scrapers, refresh, now, products, price_points,
                   alerts, procs, queue, trig>>

\* while self.running: schedule.run_pending() collects the jobs that are
\* due at this moment; with self.running false the thread ends
Loop_Test ==
    /\ sched.thread = "loop"
    /\ \/ /\ sched.running
          /\ \E d \in SUBSET Jobs :
                /\ "update_all_prices" \in d => Len(price_points) < MaxPoints
                /\ sched' = [sched EXCEPT !.thread = "jobs", !.due = d]
       \/ /\ ~sched.running
          /\ sched' = [sched EXCEPT !.thread = "exit"]
    /\ UNCHANGED <<stores, notifiers, scrapers, refresh, now, products, price_points,
                   alerts, procs, queue, trig>>

\* run_pending() calls the next due job: self.update_all_prices() or
\* self.check_price_alerts(); self.running is not read between jobs
Loop_RunJob(w, j) ==
    /\ sched.thread = "jobs"
    /\ procs[w].pc = "idle"
    /\ j \in sched.due
    /\ sched' = [sched EXCEPT !.due = @ \ {j}]
    /\ procs' =
          IF j = "update_all_prices"
          THEN Set(w, [IdleProc EXCEPT
                   !.pc = "sw_scrape", !.loaded = ActiveProducts,
                   !.todo = ActiveProducts, !.base = Len(price_points)])
          ELSE LET act == {a \in AlertIds : alerts[a].is_active}
               IN  Set(w, [IdleProc EXCEPT
                       !.pc = "sc_loop", !.loaded = act, !.todo = act,
                       !.rows = [a \in AlertIds |->
                                    alerts[a].last_notified_at]])
    /\ UNCHANGED <<stores, notifiers, scrapers, refresh, now, products, price_points,
                   alerts, queue, trig>>

\* run_pending() has returned; time.sleep(60), then the loop test
Loop_Sleep(w) ==
    /\ sched.thread = "jobs"
    /\ procs[w].pc = "idle"
    /\ sched.due = {}
    /\ sched' = [sched EXCEPT !.thread = "loop"]
    /\ UNCHANGED <<stores, notifiers, scrapers, refresh, now, products, price_points,
                   alerts, procs, queue, trig>>

NextScheduler ==
    \/ \E w \in Solo : TS_Start(w)
    \/ \E w \in Solo : TS_Spawn(w)
    \/ TS_Stop
    \/ Loop_Test
    \/ \E w \in Solo : \E j \in Jobs : Loop_RunJob(w, j)
    \/ \E w \in Solo : Loop_Sleep(w)
    \/ \E w \in Solo : SW_Scrape(w)
    \/ \E w \in Solo : SW_Commit(w)
    \/ \E w \in Solo : SW_Done(w)
    \/ \E w \in Solo : SC_Step(w)
    \/ \E w \in Solo : SC_Skip(w)
    \/ \E w \in Solo : SC_Send(w)
    \/ \E w \in Solo : SC_Update(w)
    \/ \E w \in Solo : SC_Done(w)

SpecScheduler == InitSweep /\ [][NextScheduler]_vars

\* C14: once stop() has been called, the scheduling loop starts no new
\* sweep and no new alert check (a step that starts one leaves
\* self.running true).
C14_NoJobAfterStop ==
    [][\A w \in Solo :
          procs[w].pc = "idle" /\ procs'[w].pc \in {"sw_scrape", "sc_loop"}
              => sched'.running]_vars

\* a job the scheduler has called runs on: every scrape ends (each
\* requests.get carries timeout=10), every commit returns or raises, and
\* the for loop goes to the next product
SpecSchedulerFair ==
    /\ SpecScheduler
    /\ \A w \in Solo : WF_vars(SW_Scrape(w))
    /\ \A w \in Solo : WF_vars(SW_Commit(w))
    /\ \A w \in Solo : WF_vars(SW_Done(w))

\* the sweep of w is running
Running(w) == procs[w].pc \in {"sw_scrape", "sw_commit"}

\* product p of the sweep of w has succeeded or has failed
Settled(w, p) ==
    /\ p \in procs[w].tried
    /\ p \notin procs[w].todo
    /\ procs[w].scraped[p] # NULL \/ p \in procs[w].broke

C17_SweepForwardsToEvaluator ==
    \A w \in Solo :
        procs[w].pc = "sw_scrape" /\ procs[w].todo = {} =>
            \A p \in procs[w].loaded :
                procs[w].scraped[p] # NULL =>
                    \A a \in SelectedAlerts(p, procs[w].scraped[p]) :
                        ~ShouldNotify(alerts[a].last_notified_at, now)

----------------------------------------------------------------------------
(* send_price_alert_notifications under task_acks_late=True: the message   *)
(* is acknowledged when the task returns, so a worker that is lost in the  *)
(* middle of the task leaves it to be delivered again                      *)

\* the worker is lost before the task returned: the broker restores the
\* unacknowledged message; trig remembers the rules for which a send of the
\* lost dispatch had already failed
SPN_Redeliver(w) ==
    /\ procs[w].pc \in {"spn_alert", "spn_send"}
    /\ queue' = Append(queue, Message(procs[w].loaded, procs[w].product_id,
                                      procs[w].price))
    /\ trig' = [a \in AlertIds |->
                  IF \E x \in procs[w].attempted :
                        x.alert = a /\ x.transport = "error"
                  THEN [trig[a] EXCEPT !.crashed = TRUE]
                  ELSE trig[a]]
    /\ procs' = Set(w, IdleProc)
    /\ UNCHANGED <<setup, now, products, price_points, alerts>>

\* check_product_alerts has just committed last_notified_at = utcnow() for
\* both rules of product 1 and sent the notification task
InitRedeliver ==
    /\ now = 0
    /\ products = [p \in ProductIds |-> [active |-> TRUE]]
    /\ price_points = <<[product_id |-> 1, price |-> 1]>>
    /\ \E t \in Endpoints : \E ph \in Endpoints :
          alerts = [a \in AlertIds |->
             [product_id |-> 1,
              target_price |-> a,
              is_active |-> TRUE,
              last_notified_at |-> 0,
              notification_email |-> "addr",
              notification_telegram |-> t,
              notification_phone |-> ph]]
    /\ notifiers \in [Notifiers -> NotifierStates]
    /\ scrapers = StoreNames
    /\ stores = {"Amazon"}
    /\ refresh = <<>>
    /\ sched = NewScheduler
    /\ procs = [w \in Workers |-> IdleProc]
    /\ queue = <<Message(AlertIds, 1, 1)>>
    /\ trig = [a \in AlertIds |-> Push1(NoTrig, 0)]

NextRedeliver ==
    \/ Tick
    \/ \E w \in Workers : SPN_Start(w)
    \/ \E w \in Workers : SPN_Alert(w)
    \/ \E w \in Workers : SPN_Channel(w)
    \/ \E w \in Workers : SPN_Return(w)
    \/ \E w \in Workers : SPN_Redeliver(w)

SpecRedeliver == InitRedeliver /\ [][NextRedeliver]_vars

\* the sender calls this step adds to the dispatch of w
NewAttempts(w) == procs'[w].attempted \ procs[w].attempted

\* C18: within one dispatch no sender is invoked twice for a rule, and once
\* a send of a dispatch has failed, no sender is invoked for that rule again
\* before 24 hours have passed since its last_notified_at.
C18_NoRetryOfFailedSend ==
    [][\A w \in Workers : \A x \in NewAttempts(w) :
          /\ \A y \in procs[w].attempted :
                ~(y.alert = x.alert /\ y.channel = x.channel)
          /\ trig[x.alert].crashed =>
                now - alerts[x.alert].last_notified_at >= DaySeconds]_vars

----------------------------------------------------------------------------
(* ScraperManager: the registry and get_scraper_for_url(url)               *)

\* a URL is https://www.<host><path>; a path is empty or begins with "/"
Hosts == {"amazon.com", "ebay.com", "walmart.com", "example.com"}
Paths == {"", "/dp/B07P6Y8L3F", "/itm/123456", "/ip/123456", "/product"}
Urls == [host : Hosts, path : Paths]

\* is_valid_url() of the scraper class registered under a store name:
\* re.match of  https?://(www\.)?amazon\.(com|...)/.*
\*              https?://(www\.)?ebay\.(com|...)/itm/.*
\*              https?://(www\.)?walmart\.(com|ca)/ip/.*
IsValidUrl(store_name, url) ==
    CASE store_name = "Amazon" ->
            url.host = "amazon.com" /\ url.path # ""
      [] store_name = "eBay" ->
            url.host = "ebay.com" /\ url.path = "/itm/123456"
      [] store_name = "Walmart" ->
            url.host = "walmart.com" /\ url.path = "/ip/123456"
      [] OTHER -> FALSE

\* a resolver that hands out the first registered scraper whatever the URL
FirstScraper(registry, url) ==
    IF registry = <<>>
    THEN [raised |-> FALSE, value |-> "None"]
    ELSE [raised |-> FALSE, value |-> Head(registry)]

\* for scraper_class in self.scrapers.values(): the first one whose
\* is_valid_url() accepts is returned; after the loop a warning is logged
\* and None is returned.  No path raises.
RECURSIVE GetScraperForUrl(_, _)
GetScraperForUrl(registry, url) ==
    IF registry = <<>>
    THEN [raised |-> FALSE, value |-> "None"]
    ELSE IF IsValidUrl(Head(registry), url)
         THEN [raised |-> FALSE, value |-> Head(registry)]
         ELSE GetScraperForUrl(Tail(registry), url)

\* ScraperManager(): self.scrapers = {}
GS_Init ==
    /\ \A w \in Workers : procs[w].pc = "idle"
    /\ scrapers # <<>>
    /\ scrapers' = <<>>
    /\ UNCHANGED <<stores, notifiers, refresh, sched, now, products, price_points,
                   alerts, procs, queue, trig>>

\* _discover_scrapers(): self.scrapers[store_name] = attr; a dict keeps a
\* key at the position of its first insertion, and a module that fails to
\* import registers nothing
GS_Register(store_name) ==
    /\ \A w \in Workers : procs[w].pc = "idle"
    /\ \A i \in 1..Len(scrapers) : scrapers[i] # store_name
    /\ scrapers' = Append(scrapers, store_name)
    /\ UNCHANGED <<stores, notifiers, refresh, sched, now, products, price_points,
                   alerts, procs, queue, trig>>

\* a caller has get_scraper_for_url(url) resolve a URL
GS_Resolve(w, url) ==
    /\ procs[w].pc = "idle"
    /\ procs' = Set(w, [IdleProc EXCEPT
            !.pc = "gs_done", !.url = url,
            !.found = GetScraperForUrl(scrapers, url)])
    /\ UNCHANGED <<setup, now, products, price_points, alerts, queue, trig>>

\* the caller is done with the result
GS_Return(w) ==
    /\ procs[w].pc = "gs_done"
    /\ procs' = Set(w, IdleProc)
    /\ UNCHANGED <<setup, now, products, price_points, alerts, queue, trig>>

InitResolve ==
    /\ now = 0
    /\ products = [p \in ProductIds |-> [active |-> TRUE]]
    /\ price_points = <<>>
    /\ alerts = [a \in AlertIds |->
             [product_id |-> 1,
              target_price |-> a,
              is_active |-> TRUE,
              last_notified_at |-> NULL,
              notification_email |-> "addr",
              notification_telegram |-> "",
              notification_phone |-> ""]]
    /\ notifiers = [n \in Notifiers |-> "configured"]
    /\ scrapers = <<>>
    /\ stores = {"Amazon"}
    /\ refresh = <<>>
    /\ sched = NewScheduler
    /\ procs = [w \in Workers |-> IdleProc]
    /\ queue = <<>>
    /\ trig = [a \in AlertIds |-> NoTrig]

NextResolve ==
    \/ GS_Init
    \/ \E i \in 1..Len(StoreNames) : GS_Register(StoreNames[i])
    \/ \E w \in Solo : \E url \in Urls : GS_Resolve(w, url)
    \/ \E w \in Solo : GS_Return(w)

SpecResolve == InitResolve /\ [][NextResolve]_vars

\* the positions of the registry whose scraper accepts the URL
Matching(url) ==
    {i \in 1..Len(scrapers) : IsValidUrl(scrapers[i], url)}

\* C19: a URL that exactly one registered scraper accepts resolves to that
\* scraper at whatever position it was registered, and a URL that several
\* accept resolves to the one registered first.
C19_ResolveByPattern ==
    \A w \in Workers :
        procs[w].pc = "gs_done" =>
            /\ \A i \in 1..Len(scrapers) :
                  Matching(procs[w].url) = {i} =>
                      procs[w].found = [raised |-> FALSE,
                                        value |-> scrapers[i]]
            /\ Matching(procs[w].url) # {} =>
                  procs[w].found.value =
                      scrapers[Min(Matching(procs[w].url))]

C19_Witness ==
    \E w \in Workers :
        /\ procs[w].pc = "gs_done"
        /\ Len(scrapers) = Len(StoreNames)
        /\ Matching(procs[w].url) = {Len(scrapers)}
        /\ procs[w].found.value = scrapers[Len(scrapers)]
        /\ scrapers # StoreNames

\* C20: with every scraper of the package registered, resolving a URL that
\* none of them accepts raises ValueError.
C20_UnsupportedUrlRaises ==
    \A w \in Workers :
        /\ procs[w].pc = "gs_done"
        /\ Len(scrapers) = Len(StoreNames)
        /\ Matching(procs[w].url) = {}
        => procs[w].found.raised

----------------------------------------------------------------------------
(* ScraperManager.scrape_product(url)                                      *)

\* what extract_product_info() of a scraper can come back with: it raises,
\* it returns {} (status code not 200, or its own except), or it returns a
\* record whose name and price are None when the page lacks the element
ProductNames == {"None", "Test Product"}
Currencies == {"USD", "EUR"}
ProductInfos ==
    [name : ProductNames, price : Prices \cup {NULL}, currency : Currencies]
ExtractOutcomes ==
    {[raised |-> TRUE, value |-> <<>>], [raised |-> FALSE, value |-> <<>>]}
        \cup {[raised |-> FALSE, value |-> i] : i \in ProductInfos}

\* a scrape_product that reports every currency as USD
ScrapeProductUsd(scraper, outcome) ==
    IF scraper = "None" \/ outcome.raised \/ outcome.value = <<>>
    THEN <<>>
    ELSE [outcome.value EXCEPT !.currency = "USD"]
            @@ [store_name |-> scraper]

\* if scraper: try: product_info = scraper.extract_product_info();
\* if product_info: product_info['store_name'] = scraper.get_store_name();
\* return product_info; except: logged; return {}
ScrapeProduct(scraper, outcome) ==
    IF scraper = "None" \/ outcome.raised \/ outcome.value = <<>>
    THEN <<>>
    ELSE outcome.value @@ [store_name |-> scraper]

\* scraper = self.get_scraper_for_url(url)
SP_Resolve(w, url) ==
    /\ procs[w].pc = "idle"
    /\ procs' = Set(w, [IdleProc EXCEPT
            !.pc = "sp_found", !.url = url,
            !.found = GetScraperForUrl(scrapers, url)])
    /\ UNCHANGED <<setup, now, products, price_points, alerts, queue, trig>>

\* the body of "if scraper:", one call of extract_product_info(), or the
\* final return {}
SP_Extract(w) ==
    /\ procs[w].pc = "sp_found"
    /\ IF procs[w].found.value = "None"
       THEN procs' = Set(w, [procs[w] EXCEPT
               !.pc = "sp_done",
               !.result = ScrapeProduct("None", procs[w].info)])
       ELSE \E outcome \in ExtractOutcomes :
               procs' = Set(w, [procs[w] EXCEPT
                   !.pc = "sp_done",
                   !.calls = Append(procs[w].calls, procs[w].found.value),
                   !.info = outcome,
                   !.result = ScrapeProduct(procs[w].found.value, outcome)])
    /\ UNCHANGED <<setup, now, products, price_points, alerts, queue, trig>>

\* the caller has the result
SP_Return(w) ==
    /\ procs[w].pc = "sp_done"
    /\ procs' = Set(w, IdleProc)
    /\ UNCHANGED <<setup, now, products, price_points, alerts, queue, trig>>

NextScrape ==
    \/ GS_Init
    \/ \E i \in 1..Len(StoreNames) : GS_Register(StoreNames[i])
    \/ \E w \in Solo : \E url \in Urls : SP_Resolve(w, url)
    \/ \E w \in Solo : SP_Extract(w)
    \/ \E w \in Solo : SP_Return(w)

SpecScrape == InitResolve /\ [][NextScrape]_vars

\* C21: when scrape_product returns, the extraction of the resolved scraper
\* was called exactly once and of no other scraper; a record it returned
\* comes back with name, price and currency unchanged; with no scraper for
\* the URL nothing was called, and a failed extraction gives the empty
\* result.
C21_ScrapeOnceUnchanged ==
    \A w \in Workers :
        procs[w].pc = "sp_done" =>
            IF Matching(procs[w].url) = {}
            THEN procs[w].calls = <<>> /\ procs[w].result = <<>>
            ELSE /\ procs[w].calls =
                        <<scrapers[Min(Matching(procs[w].url))]>>
                 /\ IF procs[w].info.raised \/ procs[w].info.value = <<>>
                    THEN procs[w].result = <<>>
                    ELSE /\ procs[w].result.name = procs[w].info.value.name
                         /\ procs[w].result.price = procs[w].info.value.price
                         /\ procs[w].result.currency =
                               procs[w].info.value.currency

C21_Witness ==
    \E w \in Workers :
        /\ procs[w].pc = "sp_done"
        /\ Len(scrapers) = Len(StoreNames)
        /\ procs[w].calls = <<scrapers[Len(scrapers)]>>
        /\ procs[w].result # <<>>
        /\ procs[w].result.price = 2
        /\ procs[w].result.currency = "EUR"

----------------------------------------------------------------------------
(* Sweep after sweep: the TaskScheduler sweep on one thread, the Celery    *)
(* sweep and its per-product tasks on the other worker, over every         *)
(* combination of active and inactive products                             *)

CeleryWorkers == Workers \ Solo

NextRetry ==
    \/ \E w \in Solo : SW_Start(w)
    \/ \E w \in Solo : SW_Scrape(w)
    \/ \E w \in Solo : SW_Commit(w)
    \/ \E w \in Solo : SW_Done(w)
    \/ \E w \in CeleryWorkers : CB_UpdateAllPrices(w)
    \/ \E w \in CeleryWorkers : CB_Return(w)
    \/ \E w \in CeleryWorkers : RF_Deliver(w)
    \/ \E w \in CeleryWorkers : UPP_Scrape(w)
    \/ \E w \in CeleryWorkers : UPP_Commit(w)

SpecRetry == InitSweep /\ [][NextRetry]_vars

\* the chains a step of the Celery sweep puts on the broker
Scheduled == SubSeq(refresh', Len(refresh) + 1, Len(refresh'))

----------------------------------------------------------------------------
(* Adding a product: POST /products/ (api create_product) and the CLI      *)
(* command add (cmd_add), for a URL that is not tracked yet                *)

AddPaths == {"api", "cli"}

\* a products table that takes every name
NameNullable(name) == TRUE

\* Product.name = Column(String(255), nullable=False): the flush of a row
\* whose name is None raises IntegrityError
NameNotNull(name) == name # "None"

\* PricePoint.price = Column(Float, nullable=False)
PriceNotNull(price) == price # NULL

\* the id the table gives its next row; rows are never removed
NewProductId == Cardinality(DOMAIN products) + 1

\* the test both paths make on the scraped data before they store anything:
\*   api: not product_data or 'name' not in ... or 'store_name' not in ...
\*   cli: not product_info or 'name' not in product_info
Refused(path, data) ==
    \/ data = <<>>
    \/ "name" \notin DOMAIN data
    \/ path = "api" /\ "store_name" \notin DOMAIN data

\* the extraction gave no name or no store
NoNameOrStore(data) ==
    \/ data = <<>>
    \/ "name" \notin DOMAIN data
    \/ "store_name" \notin DOMAIN data
    \/ data.name = "None"

\* product_data = scraper_manager.scrape_product(url)
AP_Scrape(w, path, url) ==
    /\ procs[w].pc = "idle"
    /\ Cardinality(DOMAIN products) < MaxProducts
    /\ LET found == GetScraperForUrl(scrapers, url)
       IN  \E outcome \in ExtractOutcomes :
             /\ found.value = "None" => outcome = IdleProc.info
             /\ procs' = Set(w, [IdleProc EXCEPT
                    !.pc = "ap_scraped", !.path = path, !.url = url,
                    !.found = found, !.info = outcome,
                    !.result = ScrapeProduct(found.value, outcome)])
    /\ UNCHANGED <<setup, now, products, price_points, alerts, queue, trig>>

\* the rest of the handler.  api: the HTTPException(400) is raised inside
\* the try and, like IntegrityError and a failed commit, ends in rollback
\* and HTTPException(500).  cli: return 1 on the test; an exception reaches
\* run(), which prints it, returns 1 and closes the session, which discards
\* what was flushed.  Otherwise store (if new), product and price point are
\* committed together.
AP_Store(w) ==
    /\ procs[w].pc = "ap_scraped"
    /\ LET data == procs[w].result
           failed == [procs[w] EXCEPT
                        !.pc = "ap_done",
                        !.status = IF procs[w].path = "api" THEN "500"
                                   ELSE "return 1"]
       IN  IF Refused(procs[w].path, data)
           THEN /\ procs' = Set(w, failed)
                /\ UNCHANGED <<products, price_points, stores>>
           ELSE IF ~NameNotNull(data.name) \/ ~PriceNotNull(data.price)
           THEN /\ procs' = Set(w, failed)
                /\ UNCHANGED <<products, price_points, stores>>
           ELSE \/ /\ stores' = stores \cup {data.store_name}
                   /\ products' = products @@
                         (NewProductId :> [active |-> TRUE])
                   /\ price_points' = Append(price_points,
                         [product_id |-> NewProductId, price |-> data.price])
                   /\ procs' = Set(w, [procs[w] EXCEPT
                         !.pc = "ap_done", !.product_id = NewProductId,
                         !.status = IF procs[w].path = "api" THEN "200"
                                    ELSE "return 0"])
                \/ /\ procs' = Set(w, failed)
                   /\ UNCHANGED <<products, price_points, stores>>
    /\ UNCHANGED <<notifiers, scrapers, refresh, sched, now, alerts, queue,
                   trig>>

\* the response is out
AP_Return(w) ==
    /\ procs[w].pc = "ap_done"
    /\ procs' = Set(w, IdleProc)
    /\ UNCHANGED <<setup, now, products, price_points, alerts, queue, trig>>

InitAdd ==
    /\ now = 0
    /\ products = <<>>
    /\ price_points = <<>>
    /\ alerts = [a \in AlertIds |->
             [product_id |-> 1,
              target_price |-> a,
              is_active |-> FALSE,
              last_notified_at |-> NULL,
              notification_email |-> "addr",
              notification_telegram |-> "",
              notification_phone |-> ""]]
    /\ notifiers = [n \in Notifiers |-> "configured"]
    /\ scrapers = StoreNames
    /\ stores = {}
    /\ refresh = <<>>
    /\ sched = NewScheduler
    /\ procs = [w \in Workers |-> IdleProc]
    /\ queue = <<>>
    /\ trig = [a \in AlertIds |-> NoTrig]

NextAdd ==
    \/ \E w \in Solo : \E path \in AddPaths : \E url \in Urls :
          AP_Scrape(w, path, url)
    \/ \E w \in Solo : AP_Store(w)
    \/ \E w \in Solo : AP_Return(w)

SpecAdd == InitAdd /\ [][NextAdd]_vars

----------------------------------------------------------------------------
(* Creating an alert: POST /price-alerts/ (api create_price_alert), the    *)
(* CLI command alert (cmd_alert) and the dashboard form                    *)

AlertPaths == {"api", "cli", "dashboard"}

\* the row the three paths build; is_active defaults to True,
\* last_notified_at to NULL
NewAlert(product_id, target_price, email, phone, telegram) ==
    [product_id |-> product_id,
     target_price |-> target_price,
     is_active |-> TRUE,
     last_notified_at |-> NULL,
     notification_email |-> email,
     notification_telegram |-> telegram,
     notification_phone |-> phone]

\* what each path tests before it builds the row:
\*   api:       the product exists (else HTTPException 404)
\*   cli:       the product exists; any([email, phone, telegram])
\*   dashboard: the product comes from a select box of existing products;
\*              notification_email or notification_phone or
\*              notification_telegram
Rejected(path, product_id, email, phone, telegram) ==
    CASE path = "api" -> product_id \notin DOMAIN products
      [] path = "cli" ->
            \/ product_id \notin DOMAIN products
            \/ email = "" /\ phone = "" /\ telegram = ""
      [] path = "dashboard" -> email = "" /\ phone = "" /\ telegram = ""

\* the whole handler: the tests, PriceAlert(...), session.add, commit (which
\* may fail and is rolled back)
CA_Create(w, path, product_id, target_price, email, phone, telegram) ==
    /\ procs[w].pc = "idle"
    /\ Cardinality(DOMAIN alerts) < MaxAlerts
    /\ path = "dashboard" => product_id \in DOMAIN products
    /\ \/ /\ ~Rejected(path, product_id, email, phone, telegram)
          /\ alerts' = alerts @@
                (Cardinality(DOMAIN alerts) + 1 :>
                    NewAlert(product_id, target_price, email, phone,
                             telegram))
          /\ procs' = Set(w, [IdleProc EXCEPT
                !.pc = "ca_done", !.path = path, !.status = "created",
                !.cur = Cardinality(DOMAIN alerts) + 1])
       \/ /\ UNCHANGED alerts
          /\ procs' = Set(w, [IdleProc EXCEPT
                !.pc = "ca_done", !.path = path, !.status = "error"])
    /\ UNCHANGED <<setup, now, products, price_points, queue, trig>>

\* the response is out
CA_Return(w) ==
    /\ procs[w].pc = "ca_done"
    /\ procs' = Set(w, IdleProc)
    /\ UNCHANGED <<setup, now, products, price_points, alerts, queue, trig>>

InitCreate ==
    /\ now = 0
    /\ products = [p \in ProductIds |-> [active |-> TRUE]]
    /\ price_points = <<>>
    /\ alerts = <<>>
    /\ notifiers = [n \in Notifiers |-> "configured"]
    /\ scrapers = StoreNames
    /\ stores = {"Amazon"}
    /\ refresh = <<>>
    /\ sched = NewScheduler
    /\ procs = [w \in Workers |-> IdleProc]
    /\ queue = <<>>
    /\ trig = [a \in AlertIds |-> NoTrig]

NextCreate ==
    \/ \E w \in Solo : \E path \in AlertPaths :
       \E product_id \in ProductIds \cup {3} : \E target_price \in Prices :
       \E email \in Endpoints : \E phone \in Endpoints :
       \E telegram \in Endpoints :
          CA_Create(w, path, product_id, target_price, email, phone,
                    telegram)
    \/ \E w \in Solo : CA_Return(w)

SpecCreate == InitCreate /\ [][NextCreate]_vars

\* C24: every stored alert rule has at least one non-empty notification
\* endpoint.
C24_RuleHasEndpoint ==
    \A a \in DOMAIN alerts :
        \/ alerts[a].notification_email # ""
        \/ alerts[a].notification_phone # ""
        \/ alerts[a].notification_telegram # ""

----------------------------------------------------------------------------
(* Deleting products while refreshes append observations and the user      *)
(* switches alerts                                                         *)

NextDelete ==
    \/ \E p \in ProductIds : DeleteProduct(p)
    \/ \E a \in AlertIds : ToggleAlert(a)
    \/ \E w \in Workers : \E p \in ProductIds : UPP_Start(w, p)
    \/ \E w \in Workers : UPP_Scrape(w)
    \/ \E w \in Workers : UPP_Commit(w)

SpecDelete == InitSweep /\ [][NextDelete]_vars

\* C25: no step removes a product row, and the step that deletes a product
\* clears its active flag only: the other products, every price point and
\* every alert rule are as before.
C25_SoftDeleteOnly ==
    [][/\ DOMAIN products \subseteq DOMAIN products'
       /\ \A p \in DOMAIN products :
             products[p].active /\ ~products'[p].active =>
                /\ \A q \in DOMAIN products \ {p} : products'[q] = products[q]
                /\ price_points' = price_points
                /\ alerts' = alerts]_vars

C25_Witness ==
    \E p \in DOMAIN products :
        /\ ~products[p].active
        /\ \E i \in 1..Len(price_points) : price_points[i].product_id = p
        /\ \E a \in DOMAIN alerts : alerts[a].product_id = p

----------------------------------------------------------------------------
(* The latest observation of a product, by the timestamp column            *)

\* price_point = PricePoint(...); session.add(price_point); session.commit()
PP_Add(w, p, price, currency, in_stock) ==
    /\ procs[w].pc = "idle"
    /\ Len(price_points) < MaxRows
    /\ products[p].active
    /\ LET row == NewPricePoint(p, price, currency, in_stock)
       IN  /\ price_points' = Append(price_points, row)
           /\ procs' = Set(w, [IdleProc EXCEPT !.pc = "pp_added",
                                  !.product_id = p, !.result = row])
    /\ UNCHANGED <<setup, now, products, alerts, queue, trig>>

\* get_product_response: latest_price = the first row by timestamp desc
PP_Latest(w) ==
    /\ procs[w].pc = "pp_added"
    /\ \E latest_price \in LatestByTimestamp(procs[w].product_id) :
          procs' = Set(w, [procs[w] EXCEPT !.pc = "pp_read",
                                           !.info = latest_price])
    /\ UNCHANGED <<setup, now, products, price_points, alerts, queue, trig>>

PP_Return(w) ==
    /\ procs[w].pc = "pp_read"
    /\ procs' = Set(w, IdleProc)
    /\ UNCHANGED <<setup, now, products, price_points, alerts, queue, trig>>

NextLatest ==
    \/ Tick
    \/ \E w \in Solo : \E p \in ProductIds : \E price \in Prices :
          \E currency \in Currencies : \E in_stock \in BOOLEAN :
             PP_Add(w, p, price, currency, in_stock)
    \/ \E w \in Solo : PP_Latest(w)
    \/ \E w \in Solo : PP_Return(w)

SpecLatest == InitSweep /\ [][NextLatest]_vars

\* C26: a query for the latest observation of a product, made by the caller
\* that appended an observation of that product with no append in between,
\* returns the appended row: id, price, currency, in_stock and timestamp.
C26_LatestIsAppended ==
    [][\A w \in Workers :
          /\ procs[w].pc = "pp_added"
          /\ procs'[w].pc = "pp_read"
          /\ price_points[Len(price_points)] = procs[w].result
          => procs'[w].info = procs[w].result]_vars

----------------------------------------------------------------------------
(* check_product_alerts delivered again for an observation it has already  *)
(* evaluated                                                               *)

----------------------------------------------------------------------------
(* The alert-recheck sweeps over a table of stored observations            *)

\* where check_price_alerts of the Celery worker and of the scheduler
\* thread can be
RecheckPcs == {"ck_loop", "sc_loop", "sc_decided", "sc_update"}

NextRecheck ==
    \/ \E i \in {1} : SendTask(i)
    \/ Quiet /\ Tick
    \/ \E w \in Solo : \E p \in ProductIds : \E price \in Prices :
          Quiet /\ PP_Add(w, p, price, "USD", TRUE)
    \/ \E w \in Solo : Quiet /\ PP_Latest(w)
    \/ \E w \in Solo : Quiet /\ PP_Return(w)
    \/ \E w \in Solo : Quiet /\ CK_Query(w)
    \/ \E w \in Solo : Quiet /\ CK_Step(w)
    \/ \E w \in Solo : Quiet /\ CK_Commit(w)
    \/ \E w \in Solo : Quiet /\ SC_Query(w)
    \/ \E w \in Solo : Quiet /\ SC_Step(w)
    \/ \E w \in Solo : Quiet /\ SC_Skip(w)
    \/ \E w \in Solo : Quiet /\ SC_Send(w)
    \/ \E w \in Solo : Quiet /\ SC_Update(w)
    \/ \E w \in Solo : Quiet /\ SC_Done(w)

\* rule 1 is active and rule 2 is switched off: the sweeps load rule 1 alone
InitRecheck == InitAlert /\ ~alerts[2].is_active

SpecRecheck == InitRecheck /\ [][NextRecheck]_vars

\* the recheck of worker w selects rule a in this step, and the price it
\* reports for it
SelectsAt(w, a, price) ==
    \/ /\ procs[w].pc = "ck_loop"
       /\ a \in procs'[w].triggered \ procs[w].triggered
       /\ Len(queue') = Len(queue) + 1
       /\ queue'[Len(queue')].price = price
    \/ /\ procs[w].pc = "sc_loop"
       /\ procs'[w].pc = "sc_decided"
       /\ procs'[w].cur = a
       /\ procs'[w].price = price

\* C28: a step of an alert-recheck sweep leaves the price_points table as it
\* is and stays inside the sweep (it never enters an extraction); a rule it
\* selects is selected on the price of an observation of the rule's product
\* that has the greatest timestamp, and that price is the one it reports; a
\* rule whose product has no observation keeps its last_notified_at and is
\* not notified.
C28_RecheckUsesStoredLatest ==
    [][\A w \in Workers :
          procs[w].pc \in RecheckPcs \/ procs'[w].pc \in RecheckPcs =>
             /\ price_points' = price_points
             /\ procs'[w].pc \in RecheckPcs \cup {"idle"}
             /\ \A a \in AlertIds :
                   /\ \A price \in Prices :
                         SelectsAt(w, a, price) =>
                            \E r \in LatestByTimestamp(alerts[a].product_id) :
                               /\ r.price = price
                               /\ r.price <= alerts[a].target_price
                   /\ LatestByTimestamp(alerts[a].product_id) = {} =>
                         /\ alerts'[a] = alerts[a]
                         /\ trig'[a] = trig[a]
                         /\ \A price \in Prices : ~SelectsAt(w, a, price)]_vars

\* C28 witness: a Celery recheck has selected a rule on the newer of two
\* observations of its product, whose older observation does not reach the
\* target
C28_Witness ==
    \E w \in Workers : \E a \in AlertIds :
        /\ procs[w].pc = "ck_loop"
        /\ a \in procs[w].triggered
        /\ \E i, j \in 1..Len(price_points) :
              /\ price_points[i].product_id = alerts[a].product_id
              /\ price_points[j].product_id = alerts[a].product_id
              /\ price_points[i].timestamp < price_points[j].timestamp
              /\ price_points[i].price > alerts[a].target_price
              /\ price_points[j].price <= alerts[a].target_price

----------------------------------------------------------------------------
(* What an evaluation writes to the rules                                  *)

\* the evaluation of worker w is about to write rule a: the rule is in
\* triggered_alerts at the commit of a Celery task, or it is the rule the
\* scheduler thread has just sent the notification for
WritesRule(w, a) ==
    \/ procs[w].pc = "cpa_commit" /\ a \in procs[w].triggered
    \/ procs[w].pc = "ck_loop" /\ procs[w].todo = {} /\ a \in procs[w].triggered
    \/ procs[w].pc = "sc_update" /\ procs[w].cur = a

\* C29: no step of the three alert paths changes a field of a rule other
\* than last_notified_at, and a rule changes in a step only if an
\* evaluation selected it to notify.
C29_OnlyLastNotifiedAt ==
    [][\A a \in AlertIds :
          /\ [alerts'[a] EXCEPT !.last_notified_at =
                                    alerts[a].last_notified_at] = alerts[a]
          /\ alerts'[a] # alerts[a] =>
                \E w \in Workers : WritesRule(w, a)]_vars

\* C29 witness: an evaluation of an observation at price 2 is over; it has
\* stamped rule 2 and left the active rule 1, whose target is lower, unstamped
C29_Witness ==
    /\ \A w \in Workers : procs[w].pc = "idle"
    /\ \E i \in 1..Len(price_points) : price_points[i].price = 2
    /\ alerts[2].is_active /\ alerts[2].last_notified_at # NULL
    /\ alerts[1].is_active /\ alerts[1].last_notified_at = NULL

----------------------------------------------------------------------------
(* A sweep whose query of the active products raises                       *)

\* mutant of CB_QueryFails: the exception is swallowed and the task returns
\* the summary of a sweep over no product
CB_QueryFailsSilent(w) ==
    /\ procs[w].pc = "idle"
    /\ procs' = Set(w, [IdleProc EXCEPT !.pc = "cb_failed", !.outage = TRUE])
    /\ UNCHANGED <<setup, now, products, price_points, alerts, queue, trig>>

\* TaskScheduler.update_all_prices: session.query(Product)...all() raises;
\* the outer except logs "Error in update_all_prices" and nothing else runs
SW_QueryFails(w) ==
    /\ procs[w].pc = "idle"
    /\ \A v \in Workers : procs[v].pc \notin SchedulerPcs
    /\ procs' = Set(w, [IdleProc EXCEPT !.pc = "sw_failed", !.outage = TRUE,
                                        !.status = "error"])
    /\ UNCHANGED <<setup, now, products, price_points, alerts, queue, trig>>

\* finally: session.close(); the job returns to the loop of the thread
SW_Close(w) ==
    /\ procs[w].pc = "sw_failed"
    /\ procs' = Set(w, IdleProc)
    /\ UNCHANGED <<setup, now, products, price_points, alerts, queue, trig>>

\* update_all_prices of the Celery worker: the query raises before any
\* chain is sent; except: logger.error, the result is {'error': str(e),
\* 'timestamp': ...}
CB_QueryFails(w) ==
    /\ procs[w].pc = "idle"
    /\ procs' = Set(w, [IdleProc EXCEPT !.pc = "cb_failed", !.outage = TRUE,
                                        !.status = "error"])
    /\ UNCHANGED <<setup, now, products, price_points, alerts, queue, trig>>

\* return {'error': ...}; finally: session.close()
CB_ReturnError(w) ==
    /\ procs[w].pc = "cb_failed"
    /\ procs' = Set(w, IdleProc)
    /\ UNCHANGED <<setup, now, products, price_points, alerts, queue, trig>>

NextOutage ==
    \/ NextRetry
    \/ \E w \in Solo : SW_QueryFails(w)
    \/ \E w \in Solo : SW_Close(w)
    \/ \E w \in CeleryWorkers : CB_QueryFails(w)
    \/ \E w \in CeleryWorkers : CB_ReturnError(w)

SpecOutage == InitSweep /\ [][NextOutage]_vars

\* C30: a sweep whose query of the product list raised ends with an error
\* and with nothing attempted, and no step of it, from the failed query to
\* its return, appends an observation, changes a rule or a product, or puts
\* a refresh on the broker.
C30_OutageLeavesState ==
    /\ [](\A w \in Workers :
             procs[w].pc \in {"sw_failed", "cb_failed"} =>
                /\ procs[w].status = "error"
                /\ procs[w].loaded = {} /\ procs[w].tried = {})
    /\ [][\A w \in Workers :
             /\ procs'[w] # procs[w]
             /\ \/ procs'[w].pc \in {"sw_failed", "cb_failed"}
                \/ procs[w].pc \in {"sw_failed", "cb_failed"}
             =>
                /\ price_points' = price_points
                /\ alerts' = alerts
                /\ products' = products
                /\ refresh' = refresh
                /\ queue' = queue
                /\ procs'[w].pc \in {"sw_failed", "cb_failed", "idle"}]_vars

\* C30 witness: the query of a sweep has failed while there are active
\* products and an observation of an earlier sweep is stored
C30_Witness ==
    \E w \in Workers :
        /\ procs[w].pc \in {"sw_failed", "cb_failed"}
        /\ procs[w].status = "error"
        /\ ActiveProducts # {}
        /\ Len(price_points) = 1

----------------------------------------------------------------------------
(* Refreshes with their return value: update_product_price on two workers  *)
(* and the sweep of the scheduler thread                                   *)

\* mutant of UPP_CommitResult: a refresh that finds an observation of the
\* product already stored returns its own as stored without adding it
UPP_CommitResultOnce(w) ==
    /\ procs[w].pc = "upp_commit"
    /\ LET row == [product_id |-> procs[w].product_id, price |-> procs[w].price]
       IN  \/ /\ procs[w].price # NULL
              /\ price_points' =
                    IF \E i \in 1..Len(price_points) :
                          price_points[i].product_id = row.product_id
                    THEN price_points
                    ELSE Append(price_points, row)
              /\ procs' = Set(w, [procs[w] EXCEPT !.pc = "upp_done",
                                                  !.result = row])
           \/ /\ UNCHANGED price_points
              /\ procs' = Set(w, [procs[w] EXCEPT !.pc = "upp_done"])
    /\ UNCHANGED <<setup, now, products, alerts, queue, trig>>

\* session.add(price_point); session.commit(), and what the task is about
\* to return: the dict of the new price point (lines 59-65), or False after
\* the rollback of the except (a None price always raises).  The result is
\* <<>> for False.
UPP_CommitResult(w) ==
    /\ procs[w].pc = "upp_commit"
    /\ LET row == [product_id |-> procs[w].product_id, price |-> procs[w].price]
       IN  \/ /\ procs[w].price # NULL
              /\ price_points' = Append(price_points, row)
              /\ procs' = Set(w, [procs[w] EXCEPT !.pc = "upp_done",
                                                  !.result = row])
           \/ /\ UNCHANGED price_points
              /\ procs' = Set(w, [procs[w] EXCEPT !.pc = "upp_done"])
    /\ UNCHANGED <<setup, now, products, alerts, queue, trig>>

\* finally: session.close(); the task returns
UPP_Return(w) ==
    /\ procs[w].pc = "upp_done"
    /\ procs' = Set(w, IdleProc)
    /\ UNCHANGED <<setup, now, products, price_points, alerts, queue, trig>>

NextRefresh ==
    \/ \E w \in Workers : \E p \in ProductIds : UPP_Start(w, p)
    \/ \E w \in Workers : UPP_Scrape(w)
    \/ \E w \in Workers : UPP_CommitResult(w)
    \/ \E w \in Workers : UPP_Return(w)
    \/ \E w \in Solo : SW_Start(w)
    \/ \E w \in Solo : SW_Scrape(w)
    \/ \E w \in Solo : SW_Commit(w)
    \/ \E w \in Solo : SW_Done(w)

SpecRefresh == InitSweep /\ [][NextRefresh]_vars

\* worker w ends a refresh in this step
EndsRefresh(w) ==
    /\ procs[w].pc \in {"upp_commit", "sw_commit"}
    /\ procs'[w] # procs[w]

\* C31: a step that ends a refresh of a product appends the one observation
\* of that product at the scraped price when the refresh succeeded (the task
\* returns the new price point; the sweep does not log the product as
\* failed) and leaves the table as it is when it failed, a refresh without a
\* price always fails, and no other step changes the table; so the table
\* grows by exactly one row of the product per successful refresh, whoever
\* else refreshes the same product at the same time.
C31_OneObservationPerRefresh ==
    [][/\ \A w \in Workers :
             EndsRefresh(w) =>
                LET upp == procs[w].pc = "upp_commit"
                    p == IF upp THEN procs[w].product_id ELSE procs[w].cur
                    ok == IF upp THEN procs'[w].result # <<>>
                                 ELSE p \notin procs'[w].broke
                IN  /\ procs[w].price = NULL => ~ok
                    /\ ok => price_points' = Append(price_points,
                                [product_id |-> p, price |-> procs[w].price])
                    /\ ~ok => price_points' = price_points
       /\ (\A w \in Workers : ~EndsRefresh(w)) =>
             price_points' = price_points]_vars

\* C31 witness: two refreshes of the same product that ran at the same time
\* have both returned their price point, and the table holds both
C31_Witness ==
    \E p \in ProductIds :
        /\ \A w \in Workers :
              /\ procs[w].pc = "upp_done"
              /\ procs[w].product_id = p
              /\ procs[w].result # <<>>
        /\ Cardinality({i \in 1..Len(price_points) :
                           price_points[i].product_id = p}) = 2

----------------------------------------------------------------------------
(* Which channels a dispatch sends to                                      *)

\* the column of rule a behind a channel is set
HasEndpoint(a, channel) ==
    \/ channel = "email" /\ alerts[a].notification_email # ""
    \/ channel = "telegram" /\ alerts[a].notification_telegram # ""
    \/ channel = "sms" /\ alerts[a].notification_phone # ""

\* C32: on both dispatch paths every call of a sender and every entry of an
\* outcome map is for a channel whose endpoint column on the rule is set.
C32_OnlyNonEmptyEndpoints ==
    \A w \in Workers :
        /\ \A t \in procs[w].attempted : HasEndpoint(t.alert, t.channel)
        /\ \A r \in procs[w].results : HasEndpoint(r.alert, r.channel)

\* C32 witness: a dispatch has gone through the channels of a rule that has
\* an email endpoint and no phone endpoint; it has sent the email and holds
\* its outcome
C32_Witness ==
    \E w \in Workers : \E a \in AlertIds :
        /\ DispatchOver(w)
        /\ alerts[a].notification_email # ""
        /\ alerts[a].notification_phone = ""
        /\ \E t \in procs[w].attempted : t.alert = a /\ t.channel = "email"
        /\ \E r \in procs[w].results : r.alert = a /\ r.channel = "email"

----------------------------------------------------------------------------
(* The life of the scheduler object over any sequence of start() and       *)
(* stop() calls: every loop thread it has created is kept, the bodies of   *)
(* the jobs are intervals                                                  *)

Threads == 1..MaxThreads

\* where a loop thread can be while it is alive: the while test, inside
\* schedule.run_pending() before a job, inside a job, in time.sleep(60)
AlivePos == {"test", "run_pending", "job", "sleep"}

\* TaskScheduler.__init__: running = False, scheduler_thread = None (0);
\* loops[t] is the position of the t-th thread created, call the position
\* of the start() call in progress, log the last line start() or stop()
\* logged
NewLifecycle ==
    [running |-> FALSE, scheduler_thread |-> 0,
     loops |-> [t \in Threads |-> "unborn"], call |-> "none", log |-> ""]

LC_Frame ==
    UNCHANGED <<stores, notifiers, scrapers, refresh, now, products,
                price_points, alerts, procs, queue, trig>>

\* mutant of LC_Start: start() does not test self.running
LC_StartUnguarded ==
    /\ sched.call = "none"
    /\ \E t \in Threads : sched.loops[t] = "unborn"
    /\ sched' = [sched EXCEPT !.running = TRUE, !.call = "initial_sweep",
                              !.log = "Running initial price update"]
    /\ LC_Frame

\* start(): if self.running: warning, return; self.running = True; the
\* initial self.update_all_prices() begins in the caller
LC_Start ==
    /\ sched.call = "none"
    /\ IF sched.running
       THEN sched' = [sched EXCEPT !.log = "Scheduler is already running"]
       ELSE /\ \E t \in Threads : sched.loops[t] = "unborn"
            /\ sched' = [sched EXCEPT !.running = TRUE,
                                      !.call = "initial_sweep",
                                      !.log = "Running initial price update"]
    /\ LC_Frame

\* the initial sweep has returned: self.scheduler_thread =
\* threading.Thread(target=self._run_scheduler); daemon; start()
LC_Spawn ==
    /\ sched.call = "initial_sweep"
    /\ LET t == Min({u \in Threads : sched.loops[u] = "unborn"})
       IN  sched' = [sched EXCEPT !.scheduler_thread = t,
                                  !.loops[t] = "test", !.call = "none",
                                  !.log = "Task scheduler started"]
    /\ LC_Frame

\* stop(): if not self.running: warning, return; self.running = False;
\* self.scheduler_thread.join(timeout=5): a thread that is at its while
\* test reads the flag and ends within the join; one that is inside
\* run_pending() or time.sleep(60) may outlast it, and join returns after
\* 5 seconds whether or not the thread has ended
LC_Stop ==
    /\ sched.call = "none"
    /\ IF sched.running
       THEN sched' = [sched EXCEPT !.running = FALSE,
                                   !.loops = [t \in Threads |->
                                        IF sched.loops[t] = "test"
                                        THEN "exit" ELSE sched.loops[t]],
                                   !.log = "Task scheduler stopped"]
       ELSE sched' = [sched EXCEPT !.log = "Scheduler is not running"]
    /\ LC_Frame

\* _run_scheduler: while self.running -- the flag of the object, whichever
\* start() set it
LC_Test(t) ==
    /\ sched.loops[t] = "test"
    /\ sched' = [sched EXCEPT !.loops[t] =
                    IF sched.running THEN "run_pending" ELSE "exit"]
    /\ LC_Frame

\* schedule.run_pending(): a job that is due is called, or none is due
LC_RunPending(t) ==
    /\ sched.loops[t] = "run_pending"
    /\ \E pos \in {"job", "sleep"} : sched' = [sched EXCEPT !.loops[t] = pos]
    /\ LC_Frame

\* the job returns to run_pending()
LC_JobDone(t) ==
    /\ sched.loops[t] = "job"
    /\ sched' = [sched EXCEPT !.loops[t] = "run_pending"]
    /\ LC_Frame

\* time.sleep(60) is over
LC_Wake(t) ==
    /\ sched.loops[t] = "sleep"
    /\ sched' = [sched EXCEPT !.loops[t] = "test"]
    /\ LC_Frame

InitLifecycle ==
    /\ now = 0
    /\ products \in [ProductIds -> [active : BOOLEAN]]
    /\ price_points = <<>>
    /\ alerts = [a \in AlertIds |->
             [product_id |-> 1,
              target_price |-> a,
              is_active |-> TRUE,
              last_notified_at |-> NULL,
              notification_email |-> "addr",
              notification_telegram |-> "",
              notification_phone |-> ""]]
    /\ notifiers = [n \in Notifiers |-> "configured"]
    /\ scrapers = StoreNames
    /\ stores = {"Amazon"}
    /\ refresh = <<>>
    /\ sched = NewLifecycle
    /\ procs = [w \in Workers |-> IdleProc]
    /\ queue = <<>>
    /\ trig = [a \in AlertIds |-> NoTrig]

NextLifecycle ==
    \/ LC_Start
    \/ LC_Spawn
    \/ LC_Stop
    \/ \E t \in Threads : LC_Test(t)
    \/ \E t \in Threads : LC_RunPending(t)
    \/ \E t \in Threads : LC_JobDone(t)
    \/ \E t \in Threads : LC_Wake(t)

SpecLifecycle == InitLifecycle /\ [][NextLifecycle]_vars

\* the loop threads that are alive
AliveLoops == {t \in Threads : sched.loops[t] \in AlivePos}

\* C33: at most one loop thread is alive at any time.
C33_OneLoopThread == Cardinality(AliveLoops) <= 1

\* C34: start() on a running scheduler and stop() on a stopped one change
\* nothing but the log; start() on a stopped scheduler sets running and
\* begins the initial sweep without creating a thread; a thread is created
\* only by the step that ends an initial sweep, one thread per sweep.
C34_StartStopIdempotent ==
    [][/\ LC_Start /\ sched.running =>
             [sched' EXCEPT !.log = sched.log] = sched
       /\ LC_Stop /\ ~sched.running =>
             [sched' EXCEPT !.log = sched.log] = sched
       /\ LC_Start /\ ~sched.running =>
             /\ sched'.running
             /\ sched'.call = "initial_sweep"
             /\ sched'.loops = sched.loops
       /\ sched'.loops # sched.loops /\
          (\E t \in Threads : sched.loops[t] = "unborn"
                                 /\ sched'.loops[t] # "unborn") =>
             /\ sched.call = "initial_sweep"
             /\ sched'.call = "none"
             /\ Cardinality({t \in Threads : sched.loops[t] = "unborn"}) =
                Cardinality({t \in Threads : sched'.loops[t] = "unborn"}) + 1]_vars

\* C34 witness: start() was called on a scheduler that runs with its one
\* loop thread, and it returned with the warning
C34_Witness ==
    /\ sched.running
    /\ sched.log = "Scheduler is already running"
    /\ sched.call = "none"
    /\ Cardinality(AliveLoops) = 1
    /\ \A t \in Threads : sched.loops[t] # "exit"

----------------------------------------------------------------------------
(* The two cooldown tests side by side, on rules notified at any instant   *)
(* around the 24-hour boundary                                             *)

\* the instants of a notification and of an evaluation: the start of the
\* clock, one second on either side of one day later, two days later
Instants == {0, 1, DaySeconds - 1, DaySeconds, DaySeconds + 1, 2 * DaySeconds}

\* check_product_alerts (and TaskScheduler.check_price_alerts) on one rule:
\* should_notify of the per-product evaluator at the current instant
PerProductDecision(w, a) ==
    /\ procs[w].pc = "idle"
    /\ procs' = Set(w, [procs[w] EXCEPT
                    !.pc = "per_product", !.cur = a, !.tnow = now,
                    !.should_notify =
                        ShouldNotify(alerts[a].last_notified_at, now)])
    /\ UNCHANGED <<setup, now, products, price_points, alerts, queue, trig>>

\* check_price_alerts on one rule: the rule goes on to the price test
\* unless the loop skips it with continue
GlobalDecision(w, a) ==
    /\ procs[w].pc = "idle"
    /\ procs' = Set(w, [procs[w] EXCEPT
                    !.pc = "global", !.cur = a, !.tnow = now,
                    !.should_notify =
                        ~SkipRecent(alerts[a].last_notified_at, now)])
    /\ UNCHANGED <<setup, now, products, price_points, alerts, queue, trig>>

DecisionReturn(w) ==
    /\ procs[w].pc \in {"per_product", "global"}
    /\ procs' = Set(w, IdleProc)
    /\ UNCHANGED <<setup, now, products, price_points, alerts, queue, trig>>

InitDecision ==
    /\ now \in Instants
    /\ products = [p \in ProductIds |-> [active |-> TRUE]]
    /\ price_points = <<>>
    /\ \E l1 \in Instants \cup {NULL} : \E l2 \in Instants \cup {NULL} :
          alerts = [a \in AlertIds |->
             [product_id |-> 1,
              target_price |-> a,
              is_active |-> TRUE,
              last_notified_at |-> IF a = 1 THEN l1 ELSE l2,
              notification_email |-> "addr",
              notification_telegram |-> "",
              notification_phone |-> ""]]
    /\ notifiers = [n \in Notifiers |-> "configured"]
    /\ scrapers = StoreNames
    /\ stores = {"Amazon"}
    /\ refresh = <<>>
    /\ sched = NewScheduler
    /\ procs = [w \in Workers |-> IdleProc]
    /\ queue = <<>>
    /\ trig = [a \in AlertIds |-> NoTrig]

NextDecision ==
    \/ \E w \in Workers : \E a \in AlertIds : PerProductDecision(w, a)
    \/ \E w \in Workers : \E a \in AlertIds : GlobalDecision(w, a)
    \/ \E w \in Workers : DecisionReturn(w)

SpecDecision == InitDecision /\ [][NextDecision]_vars

\* C35: for every time of last notification, NULL included, and every
\* current time, the per-product cooldown test and the global one decide
\* alike: whatever one of them decided for a rule, the other decides for
\* the same rule at the same instant.
C35_CooldownsAgree ==
    \A w \in Workers :
        LET a == procs[w].cur
            last == alerts[a].last_notified_at
        IN  /\ procs[w].pc = "per_product" =>
                  procs[w].should_notify = ~SkipRecent(last, procs[w].tnow)
            /\ procs[w].pc = "global" =>
                  procs[w].should_notify = ShouldNotify(last, procs[w].tnow)

\* C35 witness: the two tests have both decided on one rule that was
\* notified exactly 24 hours before, and both let it through
C35_Witness ==
    \E a \in AlertIds :
        /\ alerts[a].last_notified_at # NULL
        /\ now - alerts[a].last_notified_at = DaySeconds
        /\ procs["w1"].pc = "per_product" /\ procs["w1"].cur = a
        /\ procs["w2"].pc = "global" /\ procs["w2"].cur = a
        /\ procs["w1"].should_notify /\ procs["w2"].should_notify

----------------------------------------------------------------------------
(* A dispatch message in flight while the user switches rules off and      *)
(* deletes them on the dashboard                                           *)

\* dashboard, Alert Management: session.delete(selected_alert); commit.  A
\* delete of a row that a dispatch in progress has loaded and not yet gone
\* through is not part of this model.
DeleteAlert(a) ==
    /\ a \in DOMAIN alerts
    /\ \A w \in Workers : a \notin procs[w].todo
    /\ alerts' = [b \in DOMAIN alerts \ {a} |-> alerts[b]]
    /\ UNCHANGED <<setup, now, products, price_points, procs, queue, trig>>

\* the evaluator has committed and sent its message; every notifier is
\* configured
InitStale ==
    /\ InitDispatch
    /\ \A n \in Notifiers : notifiers[n] = "configured"

NextStale ==
    \/ \E a \in AlertIds : ToggleAlert(a)
    \/ \E a \in AlertIds : DeleteAlert(a)
    \/ \E w \in Solo : SPN_Start(w)
    \/ \E w \in Solo : SPN_Alert(w)
    \/ \E w \in Solo : SPN_Channel(w)
    \/ \E w \in Solo : SPN_Return(w)

SpecStale == InitStale /\ [][NextStale]_vars

\* C36: whenever the dispatch task calls a sender for a rule, the rule
\* exists and is active at that moment.
C36_NoStaleNotification ==
    [][\A w \in Workers : \A t \in procs'[w].attempted \ procs[w].attempted :
          /\ t.alert \in DOMAIN alerts
          /\ alerts[t.alert].is_active]_vars

----------------------------------------------------------------------------
(* Products are deleted while a TaskScheduler sweep goes through the list  *)
(* it loaded and Celery workers run update_product_price                   *)

NextStaleSweep ==
    \/ \E p \in ProductIds : DeleteProduct(p)
    \/ \E w \in Solo : SW_Start(w)
    \/ \E w \in Solo : SW_Scrape(w)
    \/ \E w \in Solo : SW_Commit(w)
    \/ \E w \in Solo : SW_Done(w)
    \/ \E w \in CeleryWorkers : \E p \in ProductIds : UPP_Start(w, p)
    \/ \E w \in CeleryWorkers : UPP_Scrape(w)
    \/ \E w \in CeleryWorkers : UPP_Commit(w)

SpecStaleSweep == InitSweep /\ [][NextStaleSweep]_vars

\* C37: a refresh that appends an observation began while its product was
\* active: no refresh that starts after the product was deleted appends
\* one, the refreshes of a sweep that loaded its list before the delete
\* included.
C37_NoObservationAfterDelete ==
    [][\A w \in Workers :
          /\ procs[w].pc \in {"sw_commit", "upp_commit"}
          /\ procs'[w] # procs[w]
          /\ Len(price_points') > Len(price_points)
          => ~procs[w].stale]_vars

----------------------------------------------------------------------------
(* POST /products/ (api create_product) on a products table whose rows     *)
(* carry their URL, for URLs that are tracked, soft-deleted or new, with   *)
(* two requests at a time                                                  *)

\* the URLs a request can name
CreateUrls == {"u1", "u2"}

\* the rows of the products table with this URL (the column has no unique
\* constraint)
ProductsWithUrl(url) == {p \in DOMAIN products : products[p].url = url}

\* existing = query(Product).filter(Product.url == url).first(); a row that
\* is found, active or not, is answered with get_product_response and
\* nothing else happens
CP_Query(w, url) ==
    /\ procs[w].pc = "idle"
    /\ Cardinality(DOMAIN products) < MaxProducts
    /\ IF ProductsWithUrl(url) # {}
       THEN \E existing \in ProductsWithUrl(url) :
               procs' = Set(w, [IdleProc EXCEPT
                   !.pc = "cp_done", !.url = url, !.product_id = existing,
                   !.status = "200"])
       ELSE procs' = Set(w, [IdleProc EXCEPT !.pc = "cp_scrape", !.url = url])
    /\ UNCHANGED <<setup, now, products, price_points, alerts, queue, trig>>

\* scrape_product(url); a refusal, an IntegrityError or a failed commit
\* ends in rollback and HTTPException(500); otherwise the store (if new),
\* the product and its first price point are committed together
CP_Store(w) ==
    /\ procs[w].pc = "cp_scrape"
    /\ \/ \E price \in Prices :
            /\ stores' = stores \cup {"Amazon"}
            /\ products' = products @@
                  (NewProductId :> [active |-> TRUE, url |-> procs[w].url])
            /\ price_points' = Append(price_points,
                  [product_id |-> NewProductId, price |-> price])
            /\ procs' = Set(w, [procs[w] EXCEPT
                  !.pc = "cp_done", !.product_id = NewProductId,
                  !.price = price, !.status = "200"])
       \/ /\ procs' = Set(w, [procs[w] EXCEPT
                  !.pc = "cp_done", !.status = "500"])
          /\ UNCHANGED <<products, price_points, stores>>
    /\ UNCHANGED <<notifiers, scrapers, refresh, sched, now, alerts, queue,
                   trig>>

\* the response is out
CP_Return(w) ==
    /\ procs[w].pc = "cp_done"
    /\ procs' = Set(w, IdleProc)
    /\ UNCHANGED <<setup, now, products, price_points, alerts, queue, trig>>

\* one product, tracked or soft-deleted, at URL u1; nothing at u2
InitUrls ==
    /\ now = 0
    /\ \E act \in BOOLEAN : products = (1 :> [active |-> act, url |-> "u1"])
    /\ price_points = <<>>
    /\ alerts = [a \in AlertIds |->
             [product_id |-> 1,
              target_price |-> a,
              is_active |-> FALSE,
              last_notified_at |-> NULL,
              notification_email |-> "addr",
              notification_telegram |-> "",
              notification_phone |-> ""]]
    /\ notifiers = [n \in Notifiers |-> "configured"]
    /\ scrapers = StoreNames
    /\ stores = {"Amazon"}
    /\ refresh = <<>>
    /\ sched = NewScheduler
    /\ procs = [w \in Workers |-> IdleProc]
    /\ queue = <<>>
    /\ trig = [a \in AlertIds |-> NoTrig]

NextUrls ==
    \/ \E p \in 1..MaxProducts : DeleteProduct(p)
    \/ \E w \in Workers : \E url \in CreateUrls : CP_Query(w, url)
    \/ \E w \in Workers : CP_Store(w)
    \/ \E w \in Workers : CP_Return(w)

SpecUrls == InitUrls /\ [][NextUrls]_vars

\* C38: when create_product answers with a product, that product is active
\* and so is in the list a full sweep that starts next loads, also when
\* the URL is that of a soft-deleted product.
C38_CreatedIsActive ==
    [][\A w \in Workers :
          /\ procs[w].pc # "cp_done"
          /\ procs'[w].pc = "cp_done"
          /\ procs'[w].status = "200"
          => /\ procs'[w].product_id \in DOMAIN products'
             /\ products'[procs'[w].product_id].active]_vars

----------------------------------------------------------------------------
(* A refresh whose scraper reads the text of the price element: the text   *)
(* goes through BaseScraper.clean_price before the observation is stored   *)
(* and the rules are evaluated                                             *)

\* the characters of a price text: a currency symbol, two digits, a letter
PriceChars == {"$", "1", "2", "x"}

\* the texts of a price element, one or two characters long
PriceTexts == UNION {[1..n -> PriceChars] : n \in 1..2}

Digits == {"0", "1", "2", "3", "4", "5", "6", "7", "8", "9"}

DigitValue(c) ==
    CASE c = "0" -> 0 [] c = "1" -> 1 [] c = "2" -> 2 [] c = "3" -> 3
      [] c = "4" -> 4 [] c = "5" -> 5 [] c = "6" -> 6 [] c = "7" -> 7
      [] c = "8" -> 8 [] c = "9" -> 9

\* the value of the run of digits that starts at position i of text
RECURSIVE DigitRun(_, _, _)
DigitRun(text, i, acc) ==
    IF i > Len(text) \/ text[i] \notin Digits
    THEN acc
    ELSE DigitRun(text, i + 1, 10 * acc + DigitValue(text[i]))

\* clean_price: the currency symbols are removed, re.search finds the first
\* number, and a text with no number gives 0.0
clean_price(price_str) ==
    LET cleaned == SelectSeq(price_str, LAMBDA c : c # "$")
        starts == {i \in 1..Len(cleaned) : cleaned[i] \in Digits}
    IN  IF starts # {}
        THEN DigitRun(cleaned, Min(starts), 0)
        ELSE 0

\* AmazonScraper.scrape inside update_product_price: price = None; if the
\* price element is found, price = self.clean_price(price_elem.text); no
\* response or a missing page returns {} and the refresh returns False
UPP_ScrapeText(w) ==
    /\ procs[w].pc = "upp_scrape"
    /\ \/ \E text \in PriceTexts :
             procs' = Set(w, [procs[w] EXCEPT
                 !.pc = "upp_commit", !.price = clean_price(text),
                 !.calls = text])
       \/ procs' = Set(w, [procs[w] EXCEPT !.pc = "upp_commit",
                                           !.price = NULL])
       \/ procs' = Set(w, IdleProc)
    /\ UNCHANGED <<setup, now, products, price_points, alerts, queue, trig>>

NextText ==
    \/ \E i \in {1} : SendTask(i)
    \/ \E w \in Solo : \E p \in ProductIds : Quiet /\ UPP_Start(w, p)
    \/ \E w \in Solo : Quiet /\ UPP_ScrapeText(w)
    \/ \E w \in Solo : Quiet /\ UPP_Commit(w)
    \/ \E w \in Solo : \E i \in 1..MaxPoints : Quiet /\ CPA_Query(w, i)
    \/ \E w \in Solo : Quiet /\ CPA_Commit(w)
    \/ \E w \in Solo : Quiet /\ CPA_Delay(w)

SpecText == InitAlert /\ [][NextText]_vars

\* C40: no stored observation has price 0 (a price text with no number is
\* a failed extraction), and no rule is selected by a price of 0.
C40_UnparsedPriceFails ==
    /\ \A i \in 1..Len(price_points) : price_points[i].price # 0
    /\ \A w \in Workers :
          procs[w].pc = "cpa_commit" /\ procs[w].price = 0 =>
              procs[w].triggered = {}

====
